---- MODULE Spec2Model ----
(***************************************************************************)
(* A model of the pitch analysis and scoring engine of crescendo:          *)
(*   - summarize_errors, gate_frames, compute_similarity                   *)
(*     (dutils/analysis_utils.py, vocal_analyzer/analysis_utils.py)        *)
(*   - the similarity store: upsert_similarity (vocal_analyzer/            *)
(*     pitch_utils.py, python/dutils/pitch_utils.py) and load_existing /   *)
(*     upsert_run (vocal_analyzer/update_analysis_similarity.py)           *)
(*   - the note segmenters, the tone analyzers, the takes index and        *)
(*     load_audio_pair                                                     *)
(*   - remove_outlier_frames and smooth_nearest_notes (v13.py,             *)
(*     experimental/v5.py), pipeline.main and                              *)
(*     compute_pitch_accuracy_score (python/dutils/pitch_utils.py)         *)
(*                                                                         *)
(* Number representation.  The program computes in IEEE doubles.  Here     *)
(*   - a cents value is an integer number of cents, or NaN;                *)
(*   - a frequency is held on the logarithmic scale the code converts it   *)
(*     to: a positive frequency f is the integer 100 * (69 + 12*log2(f /   *)
(*     440)), its MIDI number in hundredths, so that 1200 * log2(a / b)    *)
(*     is a - b.  Zero (the non-positive frequency) and NaN are separate   *)
(*     values;                                                             *)
(*   - a mean or a percentage is the exact fraction <<num, den>>, den > 0; *)
(*   - None is NoneVal for an optional number and <<>> for an optional     *)
(*     float field of a summary;                                           *)
(*   - a duration is an integer number of milliseconds.                    *)
(* Sequences are 1-based: numpy index i is i + 1 here.                     *)
(***************************************************************************)
EXTENDS Integers, Sequences, FiniteSets, TLC

VARIABLES
    cents,          \* summarize_errors: the cents-error array (argument)
    sum_args,       \* summarize_errors: [frame_ms, max_abs, ignore_short_ms] of the call, <<>> before it
    valid,          \* summarize_errors: the local mask `valid` when the summary is built
    summary,        \* summarize_errors: the returned dict, <<>> before the call
    f0,             \* gate_frames: the f0 contour (argument)
    rms,            \* gate_frames: the per-frame energy (argument)
    gate_args,      \* gate_frames: [rms_gate_ratio, jump_gate_cents] of the call, <<>> before it
    keep,           \* gate_frames: the returned mask
    refs,           \* gate_frames: per frame, the index of the frame whose f0 was `prev`
                    \*   when the frame's jump was measured (0: no jump measured)
    gated,          \* np.where(keep_mask, f0, np.nan), the gated contour
    keep2,          \* the mask of a second gate_frames pass over the gated contour
    sim_json,       \* the store: the content of analysis_similarity.json
    legacy0,        \* history: <<run>> when the file began as a legacy single-run object
    written,        \* history: per take, the payload last written for it (0: never)
    order,          \* history: the takes in the order of their first write
    n_upserts,      \* history: the number of upserts that wrote the file
    vocal_f0_raw,   \* compute_similarity: the vocal contour (argument)
    vocal_rms,      \* compute_similarity: the vocal energy, librosa.feature.rms(vocal_y)
    ref_f0,         \* compute_similarity: the reference contour (argument)
    sim_args,       \* compute_similarity: the scalar arguments of the call, <<>> before it
    sim_out,        \* compute_similarity: what the call computed, <<>> before it:
                    \*   summary, frames, offset_frames, offset_ms (returned),
                    \*   max_offset_frames, offsets_to_try and the summary and
                    \*   frames of each candidate (locals)
    track_f0,       \* note segmentation: the f0 track in Hz (NaN: unvoiced)
    take_args,      \* analyze_take: [frame_ms, max_gap_ms, max_jump_cents] of the call, <<>> before it
    take_out,       \* analyze_take: [bounds, notes], the boundaries of
                    \*   _segment_notes_by_voicing and the returned notes_data
    seg_args,       \* segment_notes: [min_note_len_frames] of the call, <<>> before it
    seg_notes,      \* segment_notes: the returned notes
    tone_frames,    \* tone analyzers: the frames of the take, [f0, rms, tilt, hnr, h12]
    smooth_out,     \* analyze_pitch_smoothness: [args, summary], <<>> before the call
    spectral_out,   \* analyze_spectral_tone: [f0_given, summary], <<>> before the call
    jitter_out,     \* analyze_jitter_shimmer: [summary], <<>> before the call
    takes_dir,      \* takes index: per label, the note rows of takes/<label>.csv, each
                    \*   row its cents_error cell; NoCsv: no such file
    index_out,      \* build_index: [threshold_cents, labels, scores], <<>> before the call
    audio_files,    \* load_audio_pair: the files [vocal, ref, alt] at vocal_path, at
                    \*   reference_path and under its name in the fallback directory
    load_args,      \* load_audio_pair: [reference_path, alt_ref_dir] given or not, <<>> before the call
    load_out,       \* load_audio_pair: the exception raised or the tuple returned
    midi_raw,       \* hz_to_note_and_cents: midi_raw, the contour in hundredths of MIDI
    outlier_out,    \* remove_outlier_frames: [max_semitone_jump, window, midi_float (the
                    \*   argument after the call), midi_clean], <<>> before the call
    flip_out,       \* smooth_nearest_notes: [max_flip_len, max_nan_gap, midi_nearest_initial,
                    \*   gap_filled (after pass 1), midi_nearest], <<>> before the call
    flip_again,     \* smooth_nearest_notes over its own output, <<>> before the call
    notes_csv,      \* vocal_notes_stats.csv: [exists, rows], a row being
                    \*   [take, note_index, cents_error]
    pipe_log,       \* the completed runs of pipeline.main, oldest first:
                    \*   [take, reference, payload, notes]
    score_summary,  \* compute_pitch_accuracy_score: the summary dict, <<>> for a key
                    \*   that is absent or None
    score_out       \* compute_pitch_accuracy_score: [score], <<>> before the call

sum_vars == <<cents, sum_args, valid, summary>>
gate_vars == <<f0, rms, gate_args, keep, refs, gated, keep2>>
store_vars == <<sim_json, legacy0, written, order, n_upserts>>
sim_vars == <<vocal_f0_raw, vocal_rms, ref_f0, sim_args, sim_out>>
seg_vars == <<track_f0, take_args, take_out, seg_args, seg_notes>>
\* the components modelled by the first four specifications, and the others
core_vars == <<sum_vars, gate_vars, store_vars, sim_vars>>
tone_vars == <<tone_frames, smooth_out, spectral_out, jitter_out>>
index_vars == <<takes_dir, index_out>>
load_vars == <<audio_files, load_args, load_out>>
clean_vars == <<midi_raw, outlier_out, flip_out, flip_again>>
pipe_vars == <<notes_csv, pipe_log>>
score_vars == <<score_summary, score_out>>
rest_vars == <<seg_vars, tone_vars, index_vars, load_vars, clean_vars, pipe_vars, score_vars>>
\* for each of the other components, the variables that are not its own
not_seg_vars == <<core_vars, tone_vars, index_vars, load_vars, clean_vars, pipe_vars, score_vars>>
not_tone_vars == <<core_vars, seg_vars, index_vars, load_vars, clean_vars, pipe_vars, score_vars>>
not_index_vars == <<core_vars, seg_vars, tone_vars, load_vars, clean_vars, pipe_vars, score_vars>>
not_load_vars == <<core_vars, seg_vars, tone_vars, index_vars, clean_vars, pipe_vars, score_vars>>
not_clean_vars == <<core_vars, seg_vars, tone_vars, index_vars, load_vars, pipe_vars, score_vars>>
not_score_vars == <<core_vars, seg_vars, tone_vars, index_vars, load_vars, clean_vars, pipe_vars>>
vars == <<core_vars, rest_vars>>

----------------------------------------------------------------------------
(* Values *)

\* np.nan
NaN == -1000000
\* Python None for an optional numeric argument
NoneVal == -2000000
\* a frequency that is not positive (0.0 Hz, the unvoiced sentinel)
ZeroHz == -3000000

IsNaN(x) == x = NaN

\* np.abs: NaN stays NaN
Abs(x) == IF IsNaN(x) THEN NaN ELSE IF x < 0 THEN -x ELSE x

\* IEEE comparisons: any comparison with NaN is False
Gt(a, b) == ~IsNaN(a) /\ ~IsNaN(b) /\ a > b
Le(a, b) == ~IsNaN(a) /\ ~IsNaN(b) /\ a <= b

Max2(a, b) == IF a >= b THEN a ELSE b
Min2(a, b) == IF a <= b THEN a ELSE b

\* Fractions <<num, den>> with den > 0
FracLe(p, q) == p[1] * q[2] <= q[1] * p[2]
FracLt(p, q) == p[1] * q[2] < q[1] * p[2]

RECURSIVE SumSeq(_)
SumSeq(s) == IF s = <<>> THEN 0 ELSE s[1] + SumSeq(Tail(s))

\* a[mask]: boolean-mask indexing
RECURSIVE Select(_, _)
Select(a, mask) ==
    IF a = <<>> THEN <<>>
    ELSE (IF mask[1] THEN <<a[1]>> ELSE <<>>) \o Select(Tail(a), Tail(mask))

\* float(np.mean(np.abs(a) <= t) * 100.0) over a non-empty array
PctWithin(a, t) ==
    <<100 * Cardinality({i \in DOMAIN a : Le(Abs(a[i]), t)}), Len(a)>>

----------------------------------------------------------------------------
(* summarize_errors *)

\* threshold_frames = max(1, int(ignore_short_ms / 1000.0 / frame_duration)),
\* for frame_ms > 0.  The quotient is exact here; the inputs below are not
\* multiples of the frame duration, where the double quotient could fall just
\* under the integer.
ThresholdFrames(ignore_short_ms, frame_ms) ==
    Max2(1, ignore_short_ms \div frame_ms)

\* the inner while: the exclusive end of the outlier run that starts at i
RECURSIVE RunEnd(_, _)
RunEnd(outliers, i) ==
    IF i <= Len(outliers) /\ outliers[i] THEN RunEnd(outliers, i + 1) ELSE i

\* mutant: the runs at or above the threshold are the ones masked
MaskRun_long(v, start, end, threshold_frames) ==
    IF end - start >= threshold_frames
    THEN [k \in DOMAIN v |-> IF k >= start /\ k < end THEN FALSE ELSE v[k]]
    ELSE v

\* what the scan does to a run of seg_len frames: valid[start:end] = False
\* when seg_len < threshold_frames
MaskRun(v, start, end, threshold_frames) ==
    IF end - start < threshold_frames
    THEN [k \in DOMAIN v |-> IF k >= start /\ k < end THEN FALSE ELSE v[k]]
    ELSE v

\* the outer while over the outlier runs
RECURSIVE ScanRuns(_, _, _, _)
ScanRuns(outliers, v, i, threshold_frames) ==
    IF i > Len(outliers) THEN v
    ELSE IF ~outliers[i] THEN ScanRuns(outliers, v, i + 1, threshold_frames)
    ELSE LET end == RunEnd(outliers, i)
         IN  ScanRuns(outliers, MaskRun(v, i, end, threshold_frames), end,
                      threshold_frames)

\* mutant: the plain cap compares with < instead of <=
ValidMask_strict(c, frame_ms, max_abs, ignore_short_ms) ==
    LET valid0   == [i \in DOMAIN c |-> ~IsNaN(c[i])]
        outliers == [i \in DOMAIN c |-> Gt(Abs(c[i]), max_abs)]
    IN  IF max_abs /= NoneVal /\ max_abs > 0
        THEN IF ignore_short_ms /= NoneVal /\ ignore_short_ms > 0 /\ frame_ms > 0
             THEN ScanRuns(outliers, valid0, 1,
                           ThresholdFrames(ignore_short_ms, frame_ms))
             ELSE [i \in DOMAIN c |-> valid0[i] /\ ~IsNaN(c[i]) /\ Abs(c[i]) < max_abs]
        ELSE valid0

\* the mask `valid` at line 60
ValidMask(c, frame_ms, max_abs, ignore_short_ms) ==
    LET valid0   == [i \in DOMAIN c |-> ~IsNaN(c[i])]
        outliers == [i \in DOMAIN c |-> Gt(Abs(c[i]), max_abs)]
    IN  IF max_abs /= NoneVal /\ max_abs > 0
        THEN IF ignore_short_ms /= NoneVal /\ ignore_short_ms > 0 /\ frame_ms > 0
             THEN ScanRuns(outliers, valid0, 1,
                           ThresholdFrames(ignore_short_ms, frame_ms))
             ELSE [i \in DOMAIN c |-> valid0[i] /\ Le(Abs(c[i]), max_abs)]
        ELSE valid0

NullSummary ==
    [mean_abs_cents |-> <<>>, pct_within_25 |-> <<>>, pct_within_50 |-> <<>>,
     pct_within_100 |-> <<>>, valid_frames |-> 0]

PctWithin25(ce) == PctWithin(ce, 25)
\* mutant: the 50-cent threshold mistyped
PctWithin50_typo(ce) == PctWithin(ce, 5)
PctWithin50(ce) == PctWithin(ce, 50)
PctWithin100(ce) == PctWithin(ce, 100)

\* mutant: the empty case is not guarded (a 0 / 0 mean)
SummaryOf_unguarded(c, v) ==
    LET ce == Select(c, v)
    IN  [mean_abs_cents |-> <<SumSeq([i \in DOMAIN ce |-> Abs(ce[i])]), Len(ce)>>,
         pct_within_25  |-> PctWithin25(ce),
         pct_within_50  |-> PctWithin50(ce),
         pct_within_100 |-> PctWithin100(ce),
         valid_frames   |-> Len(ce)]

\* lines 60-75: the dict built from the mask
SummaryOf(c, v) ==
    IF \A i \in DOMAIN v : ~v[i] THEN NullSummary
    ELSE LET ce == Select(c, v)
         IN  [mean_abs_cents |-> <<SumSeq([i \in DOMAIN ce |-> Abs(ce[i])]), Len(ce)>>,
              pct_within_25  |-> PctWithin25(ce),
              pct_within_50  |-> PctWithin50(ce),
              pct_within_100 |-> PctWithin100(ce),
              valid_frames   |-> Len(ce)]

summarize_errors(c, frame_ms, max_abs, ignore_short_ms) ==
    SummaryOf(c, ValidMask(c, frame_ms, max_abs, ignore_short_ms))

----------------------------------------------------------------------------
(* gate_frames *)

RECURSIVE SeqMax(_)
\* np.max over a non-empty array
SeqMax(s) == IF Len(s) = 1 THEN s[1] ELSE Max2(s[1], SeqMax(Tail(s)))

\* v is a frame the loop rejects at line 96: np.isnan(v) or v <= 0
Unvoiced(v) == IsNaN(v) \/ v = ZeroHz

\* 1200 * np.log2(v / prev) for two positive frequencies
JumpCents(v, prev) == v - prev

\* mutant: the energy of a frame is compared with the maximum over the frame
\* and its two neighbours
RmsMask_window(f, r, rms_gate_ratio) ==
    LET max_rms == IF r = <<>> THEN 0 ELSE SeqMax(r)
    IN  IF rms_gate_ratio > 0 /\ max_rms > 0
        THEN [i \in DOMAIN f |->
                r[i] * 100 >= rms_gate_ratio *
                    SeqMax(SubSeq(r, IF i > 1 THEN i - 1 ELSE 1,
                                     IF i < Len(r) THEN i + 1 ELSE Len(r)))]
        ELSE [i \in DOMAIN f |-> TRUE]

\* lines 89-93: the mask after the RMS gate; rms_gate_ratio in percent.  The
\* callers always pass an energy array of the contour's length; rms = None
\* leaves the mask all True, as rms_gate_ratio = 0 does.
RmsMask(f, r, rms_gate_ratio) ==
    LET max_rms == IF r = <<>> THEN 0 ELSE SeqMax(r)
    IN  IF rms_gate_ratio > 0 /\ max_rms > 0
        THEN [i \in DOMAIN f |-> r[i] * 100 >= rms_gate_ratio * max_rms]
        ELSE [i \in DOMAIN f |-> TRUE]

\* lines 94-105: the loop from frame i on; prev is the index of the frame whose
\* f0 the variable `prev` holds (0: prev is None)
RECURSIVE GateLoop(_, _, _, _, _, _)
GateLoop(f, jump_gate_cents, i, k, prev, rf) ==
    IF i > Len(f) THEN [keep |-> k, refs |-> rf]
    ELSE IF Unvoiced(f[i])
         THEN GateLoop(f, jump_gate_cents, i + 1, [k EXCEPT ![i] = FALSE], prev,
                       Append(rf, 0))
    ELSE IF prev /= 0 /\ jump_gate_cents > 0
         THEN IF Abs(JumpCents(f[i], f[prev])) > jump_gate_cents
              THEN GateLoop(f, jump_gate_cents, i + 1, [k EXCEPT ![i] = FALSE],
                            prev, Append(rf, prev))
              ELSE GateLoop(f, jump_gate_cents, i + 1, k, i,
                            Append(rf, prev))
    ELSE GateLoop(f, jump_gate_cents, i + 1, k, i, Append(rf, 0))

\* the mask and, per frame, the reference of its jump
GateRun(f, r, rms_gate_ratio, jump_gate_cents) ==
    GateLoop(f, jump_gate_cents, 1, RmsMask(f, r, rms_gate_ratio), 0, <<>>)

gate_frames(f, r, rms_gate_ratio, jump_gate_cents) ==
    GateRun(f, r, rms_gate_ratio, jump_gate_cents).keep

\* np.where(keep_mask, f0, np.nan)
WhereKept(k, f) == [i \in DOMAIN f |-> IF k[i] THEN f[i] ELSE NaN]

----------------------------------------------------------------------------
(* compute_similarity (dutils/analysis_utils.py) *)

\* a[k:]
Drop(a, k) == IF k >= Len(a) THEN <<>> ELSE SubSeq(a, k + 1, Len(a))
\* a[:n]
Take(a, n) == IF n >= Len(a) THEN a ELSE SubSeq(a, 1, n)

\* list(range(a, b + 1))
Range(a, b) == [i \in 1..(b - a + 1) |-> a + i - 1]

\* Python round(n / d) for n >= 0, d > 0: halves go to the even integer
RoundHalfEven(n, d) ==
    LET q == n \div d
        r == n % d
    IN  IF 2 * r < d THEN q
        ELSE IF 2 * r > d THEN q + 1
        ELSE IF q % 2 = 0 THEN q ELSE q + 1

\* np.round(hz_to_midi_safe(f)) then pretty_midi.note_number_to_hz: the
\* nearest equal-tempered pitch, NaN for a frequency that is not positive
RefTarget(f) ==
    IF IsNaN(f) \/ f = ZeroHz THEN NaN ELSE 100 * RoundHalfEven(f, 100)

\* cents_error on one frame: NaN unless both frequencies are positive
cents_error(vocal_hz, ref_hz) ==
    IF IsNaN(vocal_hz) \/ vocal_hz = ZeroHz \/ IsNaN(ref_hz) \/ ref_hz = ZeroHz
    THEN NaN
    ELSE vocal_hz - ref_hz

\* mutant: a bound of at least one frame, also without max_delay_ms
MaxOffsetFrames_min1(max_delay_ms, frame_ms, n_vocal, n_ref) ==
    LET m == Max2(1, RoundHalfEven(max_delay_ms, frame_ms))
    IN  Min2(m, Min2(Max2(n_vocal - 1, 0), Max2(n_ref - 1, 0)))

\* mutant: the bound is not clamped to the contour lengths
MaxOffsetFrames_unclamped(max_delay_ms, frame_ms, n_vocal, n_ref) ==
    IF max_delay_ms > 0 THEN RoundHalfEven(max_delay_ms, frame_ms) ELSE 0

\* lines 170-176: the frame bound, clamped to the contour lengths
\* (len(vocal_times) = len(vocal_f0_raw) and len(ref_times) = len(ref_f0), as
\* estimate_pitch returns them)
MaxOffsetFrames(max_delay_ms, frame_ms, n_vocal, n_ref) ==
    LET m == IF max_delay_ms > 0 THEN RoundHalfEven(max_delay_ms, frame_ms) ELSE 0
    IN  IF m > 0
        THEN Min2(m, Min2(Max2(n_vocal - 1, 0), Max2(n_ref - 1, 0)))
        ELSE m

\* mutant: with penalize_late the offsets 0..bound are tried
OffsetsToTry_late(max_offset_frames, penalize_late) ==
    IF max_offset_frames > 0
    THEN IF penalize_late THEN Range(0, max_offset_frames)
         ELSE Range(-max_offset_frames, max_offset_frames)
    ELSE <<0>>

\* mutant: the offsets are scanned from the most positive down
OffsetsToTry_desc(max_offset_frames, penalize_late) ==
    IF max_offset_frames > 0 /\ ~penalize_late
    THEN [i \in 1..(2 * max_offset_frames + 1) |-> max_offset_frames + 1 - i]
    ELSE <<0>>

\* lines 177-179
OffsetsToTry(max_offset_frames, penalize_late) ==
    IF max_offset_frames > 0 /\ ~penalize_late
    THEN Range(-max_offset_frames, max_offset_frames)
    ELSE <<0>>

\* mutant: the series that is ahead is padded with nulls, nothing is dropped
ApplyOffset_pad(vf0, rf0, offset_frames) ==
    LET vtimes == [i \in DOMAIN vf0 |-> i - 1]
        v == IF offset_frames < 0
             THEN [i \in 1..(-offset_frames) |-> NaN] \o vf0 ELSE vf0
        t == IF offset_frames < 0
             THEN [i \in 1..(-offset_frames) |-> 0] \o vtimes ELSE vtimes
        r == IF offset_frames > 0
             THEN [i \in 1..offset_frames |-> NaN] \o rf0 ELSE rf0
        n == Min2(Len(v), Len(r))
    IN  [vf0 |-> Take(v, n), rf0 |-> Take(r, n), vtimes |-> Take(t, n)]

\* _apply_offset then align_arrays: the vocal and reference series and the
\* vocal times (frame numbers), trimmed and cut to the shorter length
ApplyOffset(vf0, rf0, offset_frames) ==
    LET vtimes == [i \in DOMAIN vf0 |-> i - 1]
        v == IF offset_frames > 0 THEN Drop(vf0, offset_frames) ELSE vf0
        t == IF offset_frames > 0 THEN Drop(vtimes, offset_frames) ELSE vtimes
        r == IF offset_frames < 0 THEN Drop(rf0, -offset_frames) ELSE rf0
        n == Min2(Len(v), Len(r))
    IN  [vf0 |-> Take(v, n), rf0 |-> Take(r, n), vtimes |-> Take(t, n)]

\* build_for_offset: the summary and the per-frame detail of one candidate
BuildForOffset(gated_vocal_f0, rf0, offset_frames, args) ==
    LET al == ApplyOffset(gated_vocal_f0, rf0, offset_frames)
        ref_target_hz == [i \in DOMAIN al.rf0 |-> RefTarget(al.rf0[i])]
        ce == [i \in DOMAIN al.vf0 |-> cents_error(al.vf0[i], ref_target_hz[i])]
    IN  [offset  |-> offset_frames,
         summary |-> summarize_errors(ce, args.frame_ms,
                        IF args.score_max_abs_cents > 0
                        THEN args.score_max_abs_cents ELSE NoneVal,
                        args.ignore_short_outliers_ms),
         frames  |-> [i \in DOMAIN al.vf0 |->
                        [time |-> al.vtimes[i], vocal_hz |-> al.vf0[i],
                         ref_hz |-> ref_target_hz[i], cents_error |-> ce[i]]]]

\* line 215: the score of a summary; <<>> is float("inf")
Score(sm) == sm.mean_abs_cents

\* mutant: every candidate replaces the best so far
ScoreLess_always(score, best_score) == TRUE

\* mutant: score <= best_score, a later candidate wins a tie
ScoreLess_orEqual(score, best_score) ==
    score /= <<>> /\ (best_score = <<>> \/ FracLe(score, best_score))

\* line 216: score < best_score
ScoreLess(score, best_score) ==
    score /= <<>> /\ (best_score = <<>> \/ FracLt(score, best_score))

\* lines 213-220: the scan of the candidates from the i-th on; best is the
\* index of the best candidate so far (0: none, best_score is inf)
RECURSIVE BestOf(_, _, _)
BestOf(cands, i, best) ==
    IF i > Len(cands) THEN best
    ELSE IF ScoreLess(Score(cands[i].summary),
                      IF best = 0 THEN <<>> ELSE Score(cands[best].summary))
         THEN BestOf(cands, i + 1, i)
         ELSE BestOf(cands, i + 1, best)

compute_similarity(vf0_raw, v_rms, rf0, args) ==
    LET keep_mask == gate_frames(vf0_raw, v_rms, args.rms_gate_ratio,
                                 args.jump_gate_cents)
        gated_vocal_f0 == WhereKept(keep_mask, vf0_raw)
        max_offset_frames == MaxOffsetFrames(args.max_delay_ms, args.frame_ms,
                                             Len(vf0_raw), Len(rf0))
        offsets_to_try == OffsetsToTry(max_offset_frames, args.penalize_late)
        cands == [i \in DOMAIN offsets_to_try |->
                    BuildForOffset(gated_vocal_f0, rf0, offsets_to_try[i], args)]
        best == BestOf(cands, 1, 0)
        best_offset == IF best = 0 THEN 0 ELSE cands[best].offset
    IN  [summary           |-> IF best = 0 THEN NullSummary ELSE cands[best].summary,
         frames            |-> IF best = 0 THEN <<>> ELSE cands[best].frames,
         offset_frames     |-> best_offset,
         offset_ms         |-> best_offset * args.frame_ms,
         max_offset_frames |-> max_offset_frames,
         offsets_to_try    |-> offsets_to_try,
         candidates        |-> cands]

----------------------------------------------------------------------------
(* The similarity store.  A run is [take, payload, has_nan]: its take name  *)
(* (NoTake when the dict has no "take" key), its metadata / summary /      *)
(* frames taken as one value, and whether a NaN occurs in it.  The JSON    *)
(* object of the file is [exists, top, has_runs, runs]: top holds the      *)
(* top-level fields of a single-run object as <<run>>, has_runs says       *)
(* whether it has a "runs" key.                                            *)

NoTake == "<no take>"

AbsentFile == [exists |-> FALSE, top |-> <<>>, has_runs |-> FALSE, runs |-> <<>>]
LegacyFile(run) == [exists |-> TRUE, top |-> <<run>>, has_runs |-> FALSE, runs |-> <<>>]

\* data = {"runs": []}
EmptyData == [exists |-> TRUE, top |-> <<>>, has_runs |-> TRUE, runs |-> <<>>]

\* the for loop: the index of the first run whose "take" is take, 0 if none
RECURSIVE FirstMatch(_, _, _)
FirstMatch(runs, take, i) ==
    IF i > Len(runs) THEN 0
    ELSE IF runs[i].take = take THEN i
    ELSE FirstMatch(runs, take, i + 1)

\* mutant: the run is appended without a look for the take
UpsertRuns_append(runs, take, run) == Append(runs, run)

\* for ... if r.get("take") == take: runs[i] = run; break / else: runs.append(run)
UpsertRuns(runs, take, run) ==
    LET i == FirstMatch(runs, take, 1)
    IN  IF i /= 0 THEN [runs EXCEPT ![i] = run] ELSE Append(runs, run)

\* data.get("runs", [])
GetRuns(data) == IF data.has_runs THEN data.runs ELSE <<>>

\* update_analysis_similarity.load_existing
load_existing(file) ==
    IF ~file.exists THEN EmptyData
    ELSE IF file.has_runs THEN file
    ELSE [exists |-> TRUE, top |-> <<>>, has_runs |-> TRUE, runs |-> file.top]

\* update_analysis_similarity.upsert_run: the data returned
upsert_run(data, take, run) ==
    [data EXCEPT !.has_runs = TRUE,
                 !.runs = UpsertRuns(GetRuns(data), take, [run EXCEPT !.take = take])]

\* pitch_utils.upsert_similarity: the dict handed to json.dumps
upsert_similarity(file, run, take) ==
    LET data == IF file.exists THEN file ELSE EmptyData
    IN  [data EXCEPT !.has_runs = TRUE,
                     !.runs = UpsertRuns(GetRuns(data), take, [run EXCEPT !.take = take])]

----------------------------------------------------------------------------
(* Bounds and input sets *)

MaxCents == 4

\* one value in each band of the 25 / 50 / 100 thresholds, one beyond, and NaN
CentsVals == {NaN, 10, -30, 100, 400}
MaxAbsVals == {NoneVal, 0, 100}
\* with 50 ms frames: thresholds of 1, 2 and 3 frames
IgnoreShortVals == {NoneVal, 0, 60, 120, 160}
FrameMsVals == {0, 50}
\* the array of the specification's concrete scenario
ScenarioCents == <<10, 15, -5, 400, 12>>

MaxFrames == 3

\* three pitches a semitone apart (MIDI 60, 61, 62), a non-positive frequency
\* and NaN
F0Vals == {NaN, ZeroHz, 6000, 6100, 6200}
RmsVals == {1, 10}
\* rms_gate_ratio in percent
RmsGateVals == {0, 50}
JumpGateVals == {0, 150}

MaxVocal == 3
MaxRef == 3

\* a vocal frame is <<f0, rms>>: unvoiced and faint, on MIDI 60 and loud, 30
\* cents above MIDI 60 and faint, on MIDI 62 and loud
VocalFrames == {<<NaN, 1>>, <<6000, 10>>, <<6030, 1>>, <<6200, 10>>}
\* reference frequencies: MIDI 60, 10 cents above MIDI 62, and unvoiced
RefVals == {ZeroHz, 6000, 6210}
\* hop_length / sr, in ms
SimFrameMsVals == {50}
\* with 50 ms frames: bounds of 0, 1 and 2 frames
MaxDelayVals == {0, 60, 110}
\* <<rms_gate_ratio (percent), jump_gate_cents>>
SimGateVals == {<<0, 0>>, <<50, 150>>}
\* <<score_max_abs_cents, ignore_short_outliers_ms>>
SimScoreVals == {<<0, 0>>, <<100, 120>>}

MaxUpserts == 4

Takes == {"A", "B"}
Payloads == {1, 2}
\* the runs a legacy single-run file may hold: with or without a "take" key
LegacyRuns == {[take |-> t, payload |-> 1, has_nan |-> FALSE] : t \in {NoTake, "A"}}

----------------------------------------------------------------------------
(* Specification of summarize_errors: the array is built frame by frame,   *)
(* then summarized once.                                                   *)

SumIdle ==
    /\ cents = <<>>
    /\ sum_args = <<>>
    /\ valid = <<>>
    /\ summary = <<>>

StoreIdle ==
    /\ sim_json = AbsentFile
    /\ legacy0 = <<>>
    /\ written = [t \in Takes |-> 0]
    /\ order = <<>>
    /\ n_upserts = 0

SimIdle ==
    /\ vocal_f0_raw = <<>>
    /\ vocal_rms = <<>>
    /\ ref_f0 = <<>>
    /\ sim_args = <<>>
    /\ sim_out = <<>>

SegIdle ==
    /\ track_f0 = <<>>
    /\ take_args = <<>>
    /\ take_out = <<>>
    /\ seg_args = <<>>
    /\ seg_notes = <<>>

GateIdle ==
    /\ f0 = <<>>
    /\ rms = <<>>
    /\ gate_args = <<>>
    /\ keep = <<>>
    /\ refs = <<>>
    /\ gated = <<>>
    /\ keep2 = <<>>

CoreIdle == SumIdle /\ GateIdle /\ StoreIdle /\ SimIdle
ToneIdle ==
    /\ tone_frames = <<>>
    /\ smooth_out = <<>>
    /\ spectral_out = <<>>
    /\ jitter_out = <<>>

\* the sorted labels of the CSV files that takes/ may hold
IndexLabels == <<"take1", "take2">>
\* no file takes/<label>.csv
NoCsv == <<NoneVal>>

IndexIdle ==
    /\ takes_dir = [i \in DOMAIN IndexLabels |-> NoCsv]
    /\ index_out = <<>>

\* a path at which there is no file
NoFile == [exists |-> FALSE, sr |-> 0, audio |-> "none"]

LoadIdle ==
    /\ audio_files = [vocal |-> NoFile, ref |-> NoFile, alt |-> NoFile]
    /\ load_args = <<>>
    /\ load_out = <<>>

CleanIdle ==
    /\ midi_raw = <<>>
    /\ outlier_out = <<>>
    /\ flip_out = <<>>
    /\ flip_again = <<>>

\* no file vocal_notes/vocal_notes_stats.csv
NoNotesCsv == [exists |-> FALSE, rows |-> <<>>]

PipeIdle ==
    /\ notes_csv = NoNotesCsv
    /\ pipe_log = <<>>

\* the keys compute_pitch_accuracy_score looks up, in its order
ScoreKeys ==
    <<"p_within_50_cents", "p_within_25_cents", "percent_in_tune",
      "pct_within_50", "pct_within_25", "mean_abs_cents">>

\* a summary without any of the keys
NoKeys == [k \in {ScoreKeys[i] : i \in DOMAIN ScoreKeys} |-> <<>>]

ScoreIdle ==
    /\ score_summary = NoKeys
    /\ score_out = <<>>

RestIdle == SegIdle /\ ToneIdle /\ IndexIdle /\ LoadIdle /\ CleanIdle /\ PipeIdle /\ ScoreIdle
NotSegIdle == CoreIdle /\ ToneIdle /\ IndexIdle /\ LoadIdle /\ CleanIdle /\ PipeIdle /\ ScoreIdle
NotToneIdle == CoreIdle /\ SegIdle /\ IndexIdle /\ LoadIdle /\ CleanIdle /\ PipeIdle /\ ScoreIdle
NotIndexIdle == CoreIdle /\ SegIdle /\ ToneIdle /\ LoadIdle /\ CleanIdle /\ PipeIdle /\ ScoreIdle
NotLoadIdle == CoreIdle /\ SegIdle /\ ToneIdle /\ IndexIdle /\ CleanIdle /\ PipeIdle /\ ScoreIdle
NotCleanIdle == CoreIdle /\ SegIdle /\ ToneIdle /\ IndexIdle /\ LoadIdle /\ PipeIdle /\ ScoreIdle
NotScoreIdle == CoreIdle /\ SegIdle /\ ToneIdle /\ IndexIdle /\ LoadIdle /\ CleanIdle /\ PipeIdle

SumInit ==
    /\ cents \in {<<>>, ScenarioCents}
    /\ sum_args = <<>>
    /\ valid = <<>>
    /\ summary = <<>>
    /\ GateIdle
    /\ StoreIdle
    /\ SimIdle
    /\ RestIdle

\* the caller appends one frame to the array
AppendCents ==
    /\ sum_args = <<>>
    /\ Len(cents) < MaxCents
    /\ \E c \in CentsVals : cents' = Append(cents, c)
    /\ UNCHANGED <<sum_args, valid, summary, gate_vars, store_vars, sim_vars, rest_vars>>

\* summarize_errors(cents, frame_duration, max_abs, ignore_short_ms)
Summarize ==
    /\ sum_args = <<>>
    /\ \E frame_ms \in FrameMsVals, max_abs \in MaxAbsVals,
          ignore_short_ms \in IgnoreShortVals :
          /\ sum_args' = [frame_ms |-> frame_ms, max_abs |-> max_abs,
                          ignore_short_ms |-> ignore_short_ms]
          /\ valid' = ValidMask(cents, frame_ms, max_abs, ignore_short_ms)
          /\ summary' = summarize_errors(cents, frame_ms, max_abs, ignore_short_ms)
    /\ UNCHANGED <<cents, gate_vars, store_vars, sim_vars, rest_vars>>

SumNext == AppendCents \/ Summarize

SpecSummarize == SumInit /\ [][SumNext]_vars

----------------------------------------------------------------------------
(* Claims about summarize_errors *)

Summarized == sum_args /= <<>>

\* frame i is an outlier of the call: |cents[i]| > max_abs
OutlierAt(i) == Gt(Abs(cents[i]), sum_args.max_abs)

\* the length of the maximal outlier run that holds frame i
RunLenAt(i) ==
    LET lo == CHOOSE a \in 1..i :
                  /\ \A k \in a..i : OutlierAt(k)
                  /\ (a = 1 \/ ~OutlierAt(a - 1))
        hi == CHOOSE b \in i..Len(cents) :
                  /\ \A k \in i..b : OutlierAt(k)
                  /\ (b = Len(cents) \/ ~OutlierAt(b + 1))
    IN  hi - lo + 1

\* the call has max_abs > 0, ignore_short_ms > 0 and a positive frame duration
ShortRunMode ==
    /\ Summarized
    /\ sum_args.max_abs /= NoneVal /\ sum_args.max_abs > 0
    /\ sum_args.ignore_short_ms /= NoneVal /\ sum_args.ignore_short_ms > 0
    /\ sum_args.frame_ms > 0

CallThreshold == ThresholdFrames(sum_args.ignore_short_ms, sum_args.frame_ms)

\* the summary is the one of exactly the frames of the set S
SummaryOver(S) ==
    summary = SummaryOf(cents, [i \in DOMAIN cents |-> i \in S])

\* C1: whenever summarize_errors returns non-null percentages,
\* pct_within_25 <= pct_within_50 <= pct_within_100.
C1_PctMonotonic ==
    (Summarized /\ summary.pct_within_25 /= <<>>) =>
        /\ summary.pct_within_50 /= <<>> /\ summary.pct_within_100 /= <<>>
        /\ FracLe(summary.pct_within_25, summary.pct_within_50)
        /\ FracLe(summary.pct_within_50, summary.pct_within_100)

C1_Witness ==
    /\ Summarized /\ summary.pct_within_25 /= <<>>
    /\ FracLt(<<0, 1>>, summary.pct_within_25)
    /\ FracLt(summary.pct_within_25, summary.pct_within_50)
    /\ FracLt(summary.pct_within_50, summary.pct_within_100)
    /\ FracLt(summary.pct_within_100, <<100, 1>>)

\* C2 as stated: with max_abs > 0 and ignore_short_ms > 0, every frame of an
\* outlier run shorter than the frame-count threshold is counted as valid and
\* every frame of a run at or above the threshold is excluded.
C2_ShortRunsRescued ==
    ShortRunMode =>
        \A i \in DOMAIN cents :
            OutlierAt(i) => (valid[i] <=> RunLenAt(i) < CallThreshold)

\* C2 amended: with max_abs > 0, ignore_short_ms > 0 and frame_duration > 0,
\* every frame of an outlier run shorter than the threshold is excluded, every
\* frame of an outlier run at or above the threshold is counted as valid, the
\* other frames are valid exactly when non-null, and the summary is the one of
\* these frames; for [10, 15, -5, 400, 12] with max_abs = 100 and a threshold
\* above one frame, valid_frames = 4 and mean_abs_cents = 42 / 4.
C2_ShortRunsExcluded ==
    ShortRunMode =>
        /\ \A i \in DOMAIN cents :
              valid[i] <=> IF OutlierAt(i) THEN RunLenAt(i) >= CallThreshold
                                          ELSE ~IsNaN(cents[i])
        /\ SummaryOver({i \in DOMAIN cents : valid[i]})
        /\ (cents = ScenarioCents /\ sum_args.max_abs = 100 /\ CallThreshold > 1) =>
              /\ summary.valid_frames = 4
              /\ summary.mean_abs_cents = <<42, 4>>

\* a call that meets a short run (excluded) and a long run (kept) at once
C2_Witness ==
    /\ ShortRunMode
    /\ \E i, j \in DOMAIN cents :
          /\ OutlierAt(i) /\ RunLenAt(i) < CallThreshold /\ ~valid[i]
          /\ OutlierAt(j) /\ RunLenAt(j) >= CallThreshold /\ valid[j]

\* C3: with max_abs > 0 and ignore_short_ms absent or 0, the valid frames are
\* exactly the non-null frames with |cents| <= max_abs, whatever the run
\* length; for [10, 15, -5, 400, 12] with max_abs = 100, valid_frames = 4.
C3_AllOutliersExcluded ==
    (/\ Summarized
     /\ sum_args.max_abs /= NoneVal /\ sum_args.max_abs > 0
     /\ sum_args.ignore_short_ms \in {NoneVal, 0}) =>
        /\ \A i \in DOMAIN cents :
              valid[i] <=> (~IsNaN(cents[i]) /\ Abs(cents[i]) <= sum_args.max_abs)
        /\ SummaryOver({i \in DOMAIN cents :
                           ~IsNaN(cents[i]) /\ Abs(cents[i]) <= sum_args.max_abs})
        /\ (cents = ScenarioCents /\ sum_args.max_abs = 100) =>
              /\ summary.valid_frames = 4
              /\ summary.mean_abs_cents = <<42, 4>>

\* a call without ignore_short_ms that drops an outlier run of several frames
\* and keeps a frame at exactly max_abs
C3_Witness ==
    /\ Summarized
    /\ sum_args.max_abs /= NoneVal /\ sum_args.max_abs > 0
    /\ sum_args.ignore_short_ms \in {NoneVal, 0}
    /\ \E i \in DOMAIN cents : OutlierAt(i) /\ RunLenAt(i) >= 2 /\ ~valid[i]
    /\ \E i \in DOMAIN cents : cents[i] = sum_args.max_abs /\ valid[i]

\* C4: whenever no frame is valid after masking, summarize_errors returns
\* valid_frames = 0 with mean_abs_cents and the three percentages null.
C4_NoValidFramesNull ==
    (Summarized /\ \A i \in DOMAIN valid : ~valid[i]) =>
        /\ summary.valid_frames = 0
        /\ summary.mean_abs_cents = <<>>
        /\ summary.pct_within_25 = <<>>
        /\ summary.pct_within_50 = <<>>
        /\ summary.pct_within_100 = <<>>

\* every frame is non-null and every one is excluded by the outlier rules
C4_Witness ==
    /\ Summarized /\ cents /= <<>>
    /\ \A i \in DOMAIN cents : ~IsNaN(cents[i]) /\ ~valid[i]
    /\ summary = NullSummary

----------------------------------------------------------------------------
(* Specification of gate_frames: a contour and its energy are built frame  *)
(* by frame, gated once, and the gated contour is gated again.             *)

GateInit ==
    /\ SumIdle
    /\ GateIdle
    /\ StoreIdle
    /\ SimIdle
    /\ RestIdle

\* the estimator delivers one more frame: its f0 and its energy
AppendFrame ==
    /\ gate_args = <<>>
    /\ Len(f0) < MaxFrames
    /\ \E v \in F0Vals, e \in RmsVals :
          /\ f0' = Append(f0, v)
          /\ rms' = Append(rms, e)
    /\ UNCHANGED <<gate_args, keep, refs, gated, keep2, sum_vars, store_vars, sim_vars, rest_vars>>

\* keep_mask = gate_frames(f0, rms, ...); gated = np.where(keep_mask, f0, nan)
Gate ==
    /\ gate_args = <<>>
    /\ \E rms_gate_ratio \in RmsGateVals, jump_gate_cents \in JumpGateVals :
          LET run == GateRun(f0, rms, rms_gate_ratio, jump_gate_cents)
          IN  /\ gate_args' = [rms_gate_ratio |-> rms_gate_ratio,
                               jump_gate_cents |-> jump_gate_cents]
              /\ keep' = gate_frames(f0, rms, rms_gate_ratio, jump_gate_cents)
              /\ refs' = run.refs
              /\ gated' = WhereKept(run.keep, f0)
    /\ keep2' = <<>>
    /\ UNCHANGED <<f0, rms, sum_vars, store_vars, sim_vars, rest_vars>>

\* the same gate, with the same parameters, over the gated contour
Regate ==
    /\ gate_args /= <<>>
    /\ keep2 = <<>>
    /\ f0 /= <<>>
    /\ keep2' = gate_frames(gated, rms, gate_args.rms_gate_ratio,
                            gate_args.jump_gate_cents)
    /\ UNCHANGED <<f0, rms, gate_args, keep, refs, gated, sum_vars, store_vars, sim_vars, rest_vars>>

GateNext == AppendFrame \/ Gate \/ Regate

SpecGate == GateInit /\ [][GateNext]_vars

----------------------------------------------------------------------------
(* Claims about gate_frames *)

Gated == gate_args /= <<>>
Regated == Gated /\ keep2 /= <<>>

\* C5: gating is idempotent: gate_frames over the gated contour, with the same
\* energy and parameters, returns the same mask.
C5_GateIdempotent ==
    Regated => keep2 = keep

\* C6: with jump_gate_cents > 0, the reference of frame i's jump is the most
\* recent earlier frame kept in the returned mask; a dropped frame is never
\* the reference.
C6_ReferenceIsLastKept ==
    (Gated /\ gate_args.jump_gate_cents > 0) =>
        \A i \in DOMAIN f0 :
            refs[i] /= 0 =>
                /\ keep[refs[i]]
                /\ \A j \in (refs[i] + 1)..(i - 1) : ~keep[j]
----------------------------------------------------------------------------
(* Specification of the store: the file is absent or a legacy single-run   *)
(* object at first, and is then upserted through either script.            *)

StoreInit ==
    /\ SumIdle
    /\ GateIdle
    /\ \/ sim_json = AbsentFile /\ legacy0 = <<>>
       \/ \E run \in LegacyRuns : sim_json = LegacyFile(run) /\ legacy0 = <<run>>
    /\ written = [t \in Takes |-> 0]
    /\ order = <<>>
    /\ n_upserts = 0
    /\ SimIdle
    /\ RestIdle

\* the history of a write of take with payload
Record(take, payload) ==
    /\ written' = [written EXCEPT ![take] = payload]
    /\ order' = IF \E i \in DOMAIN order : order[i] = take
                THEN order ELSE Append(order, take)
    /\ n_upserts' = n_upserts + 1

\* pitch_utils.upsert_similarity(run, take, sim_json), as pipeline.main calls
\* it; json.dumps(..., allow_nan=False) raises ValueError on a NaN before
\* write_text, and the file is then left as it was
UpsertSimilarity ==
    /\ n_upserts < MaxUpserts
    /\ \E take \in Takes, payload \in Payloads, has_nan \in BOOLEAN :
          LET run  == [take |-> NoTake, payload |-> payload, has_nan |-> has_nan]
              data == upsert_similarity(sim_json, run, take)
          IN  IF \E i \in DOMAIN data.runs : data.runs[i].has_nan
                 \/ (data.top /= <<>> /\ data.top[1].has_nan)
              THEN UNCHANGED store_vars
              ELSE /\ sim_json' = data
                   /\ Record(take, payload)
                   /\ UNCHANGED legacy0
    /\ UNCHANGED <<sum_vars, gate_vars, sim_vars, rest_vars>>

\* update_analysis_similarity.main: load_existing, upsert_run, json.dump
UpdateAnalysisSimilarity ==
    /\ n_upserts < MaxUpserts
    /\ \E take \in Takes, payload \in Payloads, has_nan \in BOOLEAN :
          LET run == [take |-> NoTake, payload |-> payload, has_nan |-> has_nan]
          IN  /\ sim_json' = upsert_run(load_existing(sim_json), take, run)
              /\ Record(take, payload)
              /\ UNCHANGED legacy0
    /\ UNCHANGED <<sum_vars, gate_vars, sim_vars, rest_vars>>

StoreNext == UpsertSimilarity \/ UpdateAnalysisSimilarity

SpecStore == StoreInit /\ [][StoreNext]_vars

----------------------------------------------------------------------------
(* Claims about the store *)

\* C7: after any sequence of upserts from an empty store, each take name is in
\* exactly one entry of runs, the entry is the record last written for the
\* take, an existing take keeps its position and the other entries are
\* unchanged: the takes of runs are the takes in the order of their first
\* write, each with its last payload.
C7_UpsertInPlace ==
    (legacy0 = <<>> /\ n_upserts > 0) =>
        /\ sim_json.exists /\ sim_json.has_runs /\ sim_json.top = <<>>
        /\ Len(sim_json.runs) = Len(order)
        /\ \A i \in DOMAIN order :
              /\ sim_json.runs[i].take = order[i]
              /\ sim_json.runs[i].payload = written[order[i]]
        /\ \A i, j \in DOMAIN sim_json.runs :
              sim_json.runs[i].take = sim_json.runs[j].take => i = j

\* two takes stored by four upserts (two of them replaced an entry), both
\* entries holding the payload written last
C7_Witness ==
    /\ legacy0 = <<>>
    /\ Len(sim_json.runs) = 2
    /\ n_upserts = 4
    /\ sim_json.runs[1].payload = 2
    /\ sim_json.runs[2].payload = 2

\* C8: when the file is a legacy single-run object, every upsert path wraps it
\* on load: after an upsert the file has no single-run fields left at its top
\* level and the legacy run is an entry of runs (or has been replaced there by
\* a later write of its own take).
C8_LegacyWrapped ==
    (legacy0 /= <<>> /\ n_upserts > 0) =>
        /\ sim_json.has_runs
        /\ sim_json.top = <<>>
        /\ \/ \E i \in DOMAIN sim_json.runs : sim_json.runs[i] = legacy0[1]
           \/ legacy0[1].take \in Takes /\ written[legacy0[1].take] /= 0
----------------------------------------------------------------------------
(* Specification of compute_similarity: the two contours are built frame   *)
(* by frame and compared once.                                             *)

SimInit ==
    /\ SumIdle
    /\ GateIdle
    /\ StoreIdle
    /\ SimIdle
    /\ RestIdle

\* one more frame of the vocal take: its f0 and its energy
AppendVocal ==
    /\ sim_args = <<>>
    /\ Len(vocal_f0_raw) < MaxVocal
    /\ \E fr \in VocalFrames :
          /\ vocal_f0_raw' = Append(vocal_f0_raw, fr[1])
          /\ vocal_rms' = Append(vocal_rms, fr[2])
    /\ UNCHANGED <<ref_f0, sim_args, sim_out, sum_vars, gate_vars, store_vars, rest_vars>>

\* one more frame of the reference track
AppendRef ==
    /\ sim_args = <<>>
    /\ Len(ref_f0) < MaxRef
    /\ \E v \in RefVals : ref_f0' = Append(ref_f0, v)
    /\ UNCHANGED <<vocal_f0_raw, vocal_rms, sim_args, sim_out,
                   sum_vars, gate_vars, store_vars, rest_vars>>

\* compute_similarity(...)
ComputeSimilarity ==
    /\ sim_args = <<>>
    /\ \E frame_ms \in SimFrameMsVals, max_delay_ms \in MaxDelayVals,
          penalize_late \in BOOLEAN, g \in SimGateVals, sc \in SimScoreVals :
          LET args == [frame_ms |-> frame_ms,
                       rms_gate_ratio |-> g[1], jump_gate_cents |-> g[2],
                       score_max_abs_cents |-> sc[1],
                       ignore_short_outliers_ms |-> sc[2],
                       max_delay_ms |-> max_delay_ms,
                       penalize_late |-> penalize_late]
          IN  /\ sim_args' = args
              /\ sim_out' = compute_similarity(vocal_f0_raw, vocal_rms, ref_f0, args)
    /\ UNCHANGED <<vocal_f0_raw, vocal_rms, ref_f0, sum_vars, gate_vars, store_vars, rest_vars>>

SimNext == AppendVocal \/ AppendRef \/ ComputeSimilarity

SpecSim == SimInit /\ [][SimNext]_vars

----------------------------------------------------------------------------
(* Claims about compute_similarity *)

Compared == sim_args /= <<>>

\* the offsets evaluated by the call, as a set
Evaluated == {sim_out.candidates[i].offset : i \in DOMAIN sim_out.candidates}

\* a mean_abs_cents, None counted as +infinity, is <= another
ScoreLe(a, b) == b = <<>> \/ (a /= <<>> /\ FracLe(a, b))

\* C9 as stated: with penalize_late and a positive frame bound, every integer
\* offset of [0, +bound] is evaluated and no negative one.
C9_LateTriesPositive ==
    (Compared /\ sim_args.penalize_late /\ sim_out.max_offset_frames > 0) =>
        Evaluated = 0..sim_out.max_offset_frames

\* C9 amended: with penalize_late set, compute_similarity evaluates offset 0
\* alone, whatever the frame bound, and reports offset_frames = 0: no delay is
\* compensated.
C9_LateTriesZeroOnly ==
    (Compared /\ sim_args.penalize_late) =>
        /\ sim_out.offsets_to_try = <<0>>
        /\ Evaluated = {0}
        /\ sim_out.offset_frames = 0
        /\ sim_out.offset_ms = 0

\* penalize_late with a bound of two frames, and offset 0 alone evaluated
C9_Witness ==
    /\ Compared /\ sim_args.penalize_late
    /\ sim_out.max_offset_frames = 2
    /\ Evaluated = {0}

\* C10: the returned summary's mean_abs_cents is <= that of every evaluated
\* candidate, a candidate without valid frames counting as +infinity; it is
\* never worse than the summary of offset 0.
C10_BestIsMinimal ==
    Compared =>
        /\ \A i \in DOMAIN sim_out.candidates :
              ScoreLe(sim_out.summary.mean_abs_cents,
                      sim_out.candidates[i].summary.mean_abs_cents)
        /\ \E i \in DOMAIN sim_out.candidates :
              /\ sim_out.candidates[i].offset = 0
              /\ ScoreLe(sim_out.summary.mean_abs_cents,
                         sim_out.candidates[i].summary.mean_abs_cents)

\* five offsets evaluated; the chosen one is not 0 and is strictly better than
\* offset 0, and a later candidate is strictly worse than the chosen one
C10_Witness ==
    /\ Compared
    /\ Len(sim_out.candidates) = 5
    /\ sim_out.offset_frames /= 0
    /\ sim_out.summary.mean_abs_cents /= <<>>
    /\ \E i, j \in DOMAIN sim_out.candidates :
          /\ sim_out.candidates[i].offset = 0
          /\ ~ScoreLe(sim_out.candidates[i].summary.mean_abs_cents,
                      sim_out.summary.mean_abs_cents)
          /\ sim_out.candidates[j].offset > sim_out.offset_frames
          /\ sim_out.candidates[j].summary.mean_abs_cents /= <<>>
          /\ ~ScoreLe(sim_out.candidates[j].summary.mean_abs_cents,
                      sim_out.summary.mean_abs_cents)

\* the candidates whose score is finite and equal to the returned one
Tied ==
    {sim_out.candidates[i].offset : i \in
        {j \in DOMAIN sim_out.candidates :
            /\ sim_out.summary.mean_abs_cents /= <<>>
            /\ sim_out.candidates[j].summary.mean_abs_cents /= <<>>
            /\ FracLe(sim_out.candidates[j].summary.mean_abs_cents,
                      sim_out.summary.mean_abs_cents)}}

\* C11: with max_delay_ms = 0, whatever penalize_late and the contour lengths,
\* exactly one candidate is evaluated, offset 0, and offset_frames = 0 and
\* offset_ms = 0 are reported.
C11_NoDelaySinglePass ==
    (Compared /\ sim_args.max_delay_ms = 0) =>
        /\ sim_out.offsets_to_try = <<0>>
        /\ Len(sim_out.candidates) = 1
        /\ sim_out.candidates[1].offset = 0
        /\ sim_out.offset_frames = 0
        /\ sim_out.offset_ms = 0

\* max_delay_ms = 0 without penalize_late on contours long enough for a bound
\* of two frames, with a finite score at offset 0
C11_Witness ==
    /\ Compared /\ sim_args.max_delay_ms = 0 /\ ~sim_args.penalize_late
    /\ Len(vocal_f0_raw) >= 3 /\ Len(ref_f0) >= 3
    /\ Len(sim_out.candidates) = 1
    /\ sim_out.summary.mean_abs_cents /= <<>>

\* C12: the scan runs in ascending order from the most negative offset, and
\* when several offsets achieve the same minimal mean_abs_cents the first one
\* met, the most negative of them, is returned.
C12_FirstTiedWins ==
    Compared =>
        /\ \A i, j \in DOMAIN sim_out.offsets_to_try :
              i < j => sim_out.offsets_to_try[i] < sim_out.offsets_to_try[j]
        /\ \A i \in DOMAIN sim_out.candidates :
              sim_out.candidates[i].offset = sim_out.offsets_to_try[i]
        /\ Tied /= {} =>
              /\ sim_out.offset_frames \in Tied
              /\ \A k \in Tied : sim_out.offset_frames <= k

\* offset 0 and a negative offset tie for the minimum; the negative one wins
C12_Witness ==
    /\ Compared
    /\ 0 \in Tied
    /\ Cardinality(Tied) >= 2
    /\ sim_out.offset_frames < 0

\* C13 as stated: among the offsets tied for the minimal score the one of
\* smallest magnitude is chosen; offset 0 is returned whenever it ties.
C13_SmallestMagnitudeWins ==
    (Compared /\ Tied /= {}) =>
        /\ \A k \in Tied : Abs(sim_out.offset_frames) <= Abs(k)
        /\ 0 \in Tied => sim_out.offset_frames = 0

\* C13 amended: the magnitude plays no role among the offsets tied for the
\* minimal score; when offset 0 ties, it is returned exactly when no negative
\* offset ties with it (positive tied offsets lose to it), and otherwise the
\* most negative tied offset is returned.
C13_ZeroWinsOnlyOverPositive ==
    (Compared /\ 0 \in Tied) =>
        /\ (sim_out.offset_frames = 0) <=> (\A k \in Tied : k >= 0)
        /\ sim_out.offset_frames <= 0
        /\ \A k \in Tied : k < 0 => sim_out.offset_frames <= k

\* offset 0 ties with a positive offset and with no negative one, and is
\* returned
C13_Witness ==
    /\ Compared
    /\ 0 \in Tied
    /\ \E k \in Tied : k > 0
    /\ \A k \in Tied : k >= 0
    /\ Len(sim_out.candidates) >= 3
    /\ sim_out.offset_frames = 0

\* the frame count of max_delay_ms: int(round(max_delay_ms / 1000 / frame_duration))
DelayFrames ==
    IF sim_args.max_delay_ms > 0
    THEN RoundHalfEven(sim_args.max_delay_ms, sim_args.frame_ms) ELSE 0

\* C14: the frame bound is the frame count of max_delay_ms clamped to
\* min(len(vocal), len(ref)) - 1 and not below 0; without penalize_late the
\* evaluated offsets are exactly the integers of [-bound, +bound]; and for
\* every evaluated offset both trimmed series are non-empty whenever both
\* contours are non-empty.
C14_BoundClamped ==
    Compared =>
        /\ sim_out.max_offset_frames =
              Max2(0, Min2(DelayFrames,
                           Min2(Len(vocal_f0_raw), Len(ref_f0)) - 1))
        /\ ~sim_args.penalize_late =>
              /\ Evaluated = (-sim_out.max_offset_frames)..sim_out.max_offset_frames
              /\ Len(sim_out.candidates) = 2 * sim_out.max_offset_frames + 1
        /\ (vocal_f0_raw /= <<>> /\ ref_f0 /= <<>>) =>
              \A i \in DOMAIN sim_out.candidates :
                  LET al == ApplyOffset(vocal_f0_raw, ref_f0,
                                        sim_out.candidates[i].offset)
                  IN  /\ al.vf0 /= <<>> /\ al.rf0 /= <<>>
                      /\ Len(sim_out.candidates[i].frames) >= 1

\* a delay of two frames clamped to one by a two-frame contour, the offsets
\* -1, 0, 1 evaluated
C14_Witness ==
    /\ Compared /\ ~sim_args.penalize_late
    /\ DelayFrames = 2
    /\ Min2(Len(vocal_f0_raw), Len(ref_f0)) = 2
    /\ sim_out.max_offset_frames = 1
    /\ Evaluated = {-1, 0, 1}

----------------------------------------------------------------------------
(* Note segmentation: _segment_notes_by_voicing and analyze_take           *)
(* (python/dutils/pitch_utils.py), segment_notes (vocal_analyzer/          *)
(* pitch_utils.py).  A note's measured frequency is a mean or a median of  *)
(* frequencies in Hz, so in this part a frequency is an integer number of  *)
(* Hz (NaN: unvoiced), a mean or a median is the exact fraction <<num,     *)
(* den>> of Hz, a target frequency is an integer number of centihertz,     *)
(* and a cents error 1200 * log2(measured / target) is held as the         *)
(* frequency ratio <<num, den>> = measured / target that it is the         *)
(* logarithm of.                                                           *)

\* the semitones the tracks of the model lie in: G#3 .. C4
MidiLo == 56
MidiHi == 60

\* librosa.midi_to_hz(m) = 440 * 2^((m - 69) / 12), in centihertz
MidiToHz(m) ==
    CASE m = 56 -> 20765
      [] m = 57 -> 22000
      [] m = 58 -> 23308
      [] m = 59 -> 24694
      [] m = 60 -> 26163

\* librosa.midi_to_hz(m - 0.5) in centihertz: the frequency at which the
\* rounded MIDI number turns from m - 1 to m
SemitoneEdge(m) ==
    CASE m = 56 -> 20174
      [] m = 57 -> 21374
      [] m = 58 -> 22645
      [] m = 59 -> 23991
      [] m = 60 -> 25418
      [] m = 61 -> 26929

\* round(librosa.hz_to_midi(x)) of the frequency x = <<num, den>> Hz
RoundMidiOfHz(x) ==
    CHOOSE m \in MidiLo..MidiHi :
        /\ SemitoneEdge(m) * x[2] <= 100 * x[1]
        /\ 100 * x[1] < SemitoneEdge(m + 1) * x[2]

\* round((hz_to_midi(a) + hz_to_midi(b)) / 2): the mean of two MIDI numbers
\* is the MIDI number of the geometric mean sqrt(a * b) of the frequencies
RoundMidiOfPair(a, b) ==
    CHOOSE m \in MidiLo..MidiHi :
        /\ SemitoneEdge(m) * SemitoneEdge(m) <= 10000 * a * b
        /\ 10000 * a * b < SemitoneEdge(m + 1) * SemitoneEdge(m + 1)

\* 2^(c / 1200) in ten-thousandths, for the jump thresholds of the model:
\* abs(1200 * log2(f1 / f2)) > c iff max(f1, f2) / min(f1, f2) > 2^(c / 1200)
JumpRatio(c) ==
    CASE c = 0   -> 10000
      [] c = 80  -> 10473
      [] c = 200 -> 11225

\* abs(cents_between(f1, f2)) > max_jump_cents
JumpExceeds(f1, f2, max_jump_cents) ==
    Max2(f1, f2) * 10000 > JumpRatio(max_jump_cents) * Min2(f1, f2)

\* the k-th smallest element of a sequence of numbers
KthSmallest(s, k) ==
    CHOOSE x \in {s[i] : i \in DOMAIN s} :
        /\ Cardinality({i \in DOMAIN s : s[i] < x}) < k
        /\ Cardinality({i \in DOMAIN s : s[i] <= x}) >= k

\* np.mean of a non-empty sequence of Hz
MeanHz(s) == <<SumSeq(s), Len(s)>>

\* np.median of a non-empty sequence of Hz: the middle element, or the mean
\* of the two middle elements
MedianHz(s) ==
    IF Len(s) % 2 = 1
    THEN <<KthSmallest(s, (Len(s) + 1) \div 2), 1>>
    ELSE <<KthSmallest(s, Len(s) \div 2) + KthSmallest(s, Len(s) \div 2 + 1), 2>>

\* round(np.median(midi_vals)) for the MIDI numbers of a sequence of Hz
RoundMedianMidi(s) ==
    IF Len(s) % 2 = 1
    THEN RoundMidiOfHz(<<KthSmallest(s, (Len(s) + 1) \div 2), 1>>)
    ELSE RoundMidiOfPair(KthSmallest(s, Len(s) \div 2),
                         KthSmallest(s, Len(s) \div 2 + 1))

RECURSIVE Gcd(_, _)
Gcd(a, b) == IF b = 0 THEN a ELSE Gcd(b, a % b)

\* measured / target for measured = <<num, den>> Hz and target in centihertz,
\* in lowest terms
HzRatio(measured, target) ==
    LET num == 100 * measured[1]
        den == measured[2] * target
    IN  <<num \div Gcd(num, den), den \div Gcd(num, den)>>

\* librosa.frames_to_time(np.arange(len(f0)), ...), in ms
FrameTimes(f, frame_ms) == [i \in DOMAIN f |-> (i - 1) * frame_ms]

\* mutant: the note that is open when the loop ends is not appended
RECURSIVE BoundaryLoop_noTail(_, _, _, _, _, _, _)
BoundaryLoop_noTail(vt, vf, i, start_idx, boundaries, max_gap_ms, max_jump_cents) ==
    IF i > Len(vt)
    THEN boundaries
    ELSE IF vt[i] - vt[i - 1] > max_gap_ms
            \/ JumpExceeds(vf[i], vf[i - 1], max_jump_cents)
         THEN BoundaryLoop_noTail(vt, vf, i + 1, i,
                                  Append(boundaries, <<start_idx, i - 1>>),
                                  max_gap_ms, max_jump_cents)
         ELSE BoundaryLoop_noTail(vt, vf, i + 1, start_idx, boundaries,
                                  max_gap_ms, max_jump_cents)

\* lines 160-175: the loop over the voiced frames and the final append
RECURSIVE BoundaryLoop(_, _, _, _, _, _, _)
BoundaryLoop(vt, vf, i, start_idx, boundaries, max_gap_ms, max_jump_cents) ==
    IF i > Len(vt)
    THEN Append(boundaries, <<start_idx, Len(vt)>>)
    ELSE LET dt       == vt[i] - vt[i - 1]
             new_note == IF dt > max_gap_ms
                         THEN TRUE
                         ELSE JumpExceeds(vf[i], vf[i - 1], max_jump_cents)
         IN  IF new_note
             THEN BoundaryLoop(vt, vf, i + 1, i,
                               Append(boundaries, <<start_idx, i - 1>>),
                               max_gap_ms, max_jump_cents)
             ELSE BoundaryLoop(vt, vf, i + 1, start_idx, boundaries,
                               max_gap_ms, max_jump_cents)

\* _segment_notes_by_voicing(times, f0, voiced_mask, max_gap_sec, max_jump_cents)
segment_notes_by_voicing(times, f, voiced_mask, max_gap_ms, max_jump_cents) ==
    LET voiced_times == Select(times, voiced_mask)
        voiced_f0    == Select(f, voiced_mask)
    IN  [voiced_times |-> voiced_times,
         voiced_f0    |-> voiced_f0,
         boundaries   |-> IF Len(voiced_times) = 0
                          THEN <<>>
                          ELSE BoundaryLoop(voiced_times, voiced_f0, 2, 1, <<>>,
                                            max_gap_ms, max_jump_cents)]

\* s[a .. b], empty when b < a
Slice(s, a, b) == [k \in 1..(IF b < a THEN 0 ELSE b - a + 1) |-> s[a + k - 1]]

\* analyze_take, lines 219-247: the dict of the note on voiced frames
\* start_i .. end_i
TakeNote(note_idx, note_times, note_f0) ==
    LET mean_f0      == MeanHz(note_f0)
        midi_rounded == RoundMidiOfHz(mean_f0)
        target_hz    == MidiToHz(midi_rounded)
    IN  [note_index  |-> note_idx,
         start_time  |-> note_times[1],
         end_time    |-> note_times[Len(note_times)],
         duration    |-> note_times[Len(note_times)] - note_times[1],
         note_name   |-> midi_rounded,
         measured_hz |-> mean_f0,
         target_hz   |-> target_hz,
         cents_error |-> HzRatio(mean_f0, target_hz),
         frame_times |-> note_times,
         frame_hz    |-> note_f0]

\* analyze_take, lines 217-247: the loop over note_bounds
RECURSIVE TakeNotes(_, _, _, _, _)
TakeNotes(vt, vf, note_bounds, k, notes_data) ==
    IF k > Len(note_bounds)
    THEN notes_data
    ELSE LET note_times == Slice(vt, note_bounds[k][1], note_bounds[k][2])
             note_f0    == Slice(vf, note_bounds[k][1], note_bounds[k][2])
         IN  IF Len(note_f0) = 0
             THEN TakeNotes(vt, vf, note_bounds, k + 1, notes_data)
             ELSE TakeNotes(vt, vf, note_bounds, k + 1,
                            Append(notes_data, TakeNote(k - 1, note_times, note_f0)))

\* analyze_take from the pYIN track on: pYIN marks a frame unvoiced by NaN,
\* so voiced_flag is ~isnan(f0)
analyze_take(f, frame_ms, max_gap_ms, max_jump_cents) ==
    LET times       == FrameTimes(f, frame_ms)
        voiced_flag == [i \in DOMAIN f |-> ~IsNaN(f[i])]
        voiced_mask == [i \in DOMAIN f |-> ~IsNaN(f[i]) /\ voiced_flag[i]]
        seg         == segment_notes_by_voicing(times, f, voiced_mask,
                                                max_gap_ms, max_jump_cents)
    IN  IF ~(\E i \in DOMAIN f : voiced_mask[i])
        THEN [bounds |-> <<>>, notes |-> <<>>]
        ELSE IF seg.boundaries = <<>>
        THEN [bounds |-> <<>>, notes |-> <<>>]
        ELSE [bounds |-> seg.boundaries,
              notes  |-> TakeNotes(seg.voiced_times, seg.voiced_f0,
                                   seg.boundaries, 1, <<>>)]

\* segment_notes.flush, lines 55-77: the dict of the note on frames idxs
SegNote(f, times, idxs) ==
    LET f0_vals     == [k \in DOMAIN idxs |-> f[idxs[k]]]
        t_vals      == [k \in DOMAIN idxs |-> times[idxs[k]]]
        midi_round  == RoundMedianMidi(f0_vals)
        target_hz   == MidiToHz(midi_round)
        measured_hz == MedianHz(f0_vals)
    IN  [start_idx   |-> idxs[1],
         end_idx     |-> idxs[Len(idxs)],
         start_time  |-> t_vals[1],
         end_time    |-> t_vals[Len(t_vals)],
         duration    |-> t_vals[Len(t_vals)] - t_vals[1],
         note_name   |-> midi_round,
         measured_hz |-> measured_hz,
         target_hz   |-> target_hz,
         cents_error |-> IF measured_hz[1] > 0 /\ target_hz > 0
                         THEN HzRatio(measured_hz, target_hz)
                         ELSE <<1, 1>>,
         midi        |-> midi_round]

\* mutant: a run of exactly min_note_len_frames frames is discarded too
Flush_strict(f, times, notes, current, min_note_len_frames) ==
    IF Len(current) <= min_note_len_frames
    THEN notes
    ELSE Append(notes, SegNote(f, times, current))

\* segment_notes.flush: the notes after the run `current` is closed
Flush(f, times, notes, current, min_note_len_frames) ==
    IF Len(current) < min_note_len_frames
    THEN notes
    ELSE Append(notes, SegNote(f, times, current))

\* segment_notes, lines 81-99: the loop over the frames and the final flush;
\* current_midi is NoneVal while no run is open
RECURSIVE SegLoop(_, _, _, _, _, _, _)
SegLoop(f, times, i, current, current_midi, notes, min_note_len_frames) ==
    IF i > Len(f)
    THEN IF current /= <<>>
         THEN Flush(f, times, notes, current, min_note_len_frames)
         ELSE notes
    ELSE IF IsNaN(f[i]) \/ f[i] <= 0
    THEN SegLoop(f, times, i + 1, <<>>, NoneVal,
                 IF current /= <<>>
                 THEN Flush(f, times, notes, current, min_note_len_frames)
                 ELSE notes,
                 min_note_len_frames)
    ELSE LET midi_r == RoundMidiOfHz(<<f[i], 1>>)
         IN  IF current = <<>>
             THEN SegLoop(f, times, i + 1, <<i>>, midi_r, notes,
                          min_note_len_frames)
             ELSE IF midi_r /= current_midi
             THEN SegLoop(f, times, i + 1, <<i>>, midi_r,
                          Flush(f, times, notes, current, min_note_len_frames),
                          min_note_len_frames)
             ELSE SegLoop(f, times, i + 1, Append(current, i), current_midi,
                          notes, min_note_len_frames)

\* segment_notes(times, f0, min_note_len_frames)
segment_notes(times, f, min_note_len_frames) ==
    SegLoop(f, times, 1, <<>>, NoneVal, <<>>, min_note_len_frames)

----------------------------------------------------------------------------
(* Specification of note segmentation: a track is built frame by frame,   *)
(* then analyze_take and segment_notes each segment it once.               *)

MaxTrack == 4
\* A3, a sharp A3 below the A3 / A#3 edge (226.45 Hz), A#3 and C4
TrackVals == {NaN, 220, 226, 233, 262}
\* the contour of the scenario: three frames of A3, three of A#3, one unvoiced,
\* two of A3
ScenarioTrack == <<220, 220, 220, 233, 233, 233, NaN, 220, 220>>
\* hop_length / sr, in ms
TrackFrameMsVals == {10}
\* max_gap_sec in ms: below one hop, between one and two hops, the default
MaxGapVals == {0, 15, 80}
MaxJumpVals == {0, 80, 200}
MinNoteLenVals == {1, 2, 3}

SegInit ==
    /\ track_f0 \in {<<>>, ScenarioTrack}
    /\ take_args = <<>>
    /\ take_out = <<>>
    /\ seg_args = <<>>
    /\ seg_notes = <<>>
    /\ NotSegIdle

\* the pitch tracker yields one more frame
AppendTrackFrame ==
    /\ take_args = <<>>
    /\ seg_args = <<>>
    /\ Len(track_f0) < MaxTrack
    /\ \E hz \in TrackVals : track_f0' = Append(track_f0, hz)
    /\ UNCHANGED <<take_args, take_out, seg_args, seg_notes, not_seg_vars>>

\* analyze_take(path, max_gap_sec, max_jump_cents)
AnalyzeTake ==
    /\ take_args = <<>>
    /\ \E frame_ms \in TrackFrameMsVals, max_gap_ms \in MaxGapVals,
          max_jump_cents \in MaxJumpVals :
          /\ take_args' = [frame_ms |-> frame_ms, max_gap_ms |-> max_gap_ms,
                           max_jump_cents |-> max_jump_cents]
          /\ take_out' = analyze_take(track_f0, frame_ms, max_gap_ms, max_jump_cents)
    /\ UNCHANGED <<track_f0, seg_args, seg_notes, not_seg_vars>>

\* segment_notes(times, f0, min_note_len_frames)
SegmentNotes ==
    /\ seg_args = <<>>
    /\ \E frame_ms \in TrackFrameMsVals, min_note_len_frames \in MinNoteLenVals :
          /\ seg_args' = [frame_ms |-> frame_ms,
                          min_note_len_frames |-> min_note_len_frames]
          /\ seg_notes' = segment_notes(FrameTimes(track_f0, frame_ms), track_f0,
                                        min_note_len_frames)
    /\ UNCHANGED <<track_f0, take_args, take_out, not_seg_vars>>

SegNext == AppendTrackFrame \/ AnalyzeTake \/ SegmentNotes

SpecSegment == SegInit /\ [][SegNext]_vars

----------------------------------------------------------------------------
(* Claims about note segmentation *)

Analyzed == take_args /= <<>>
Segmented == seg_args /= <<>>

\* the number of voiced frames of the track
VoicedCount == Cardinality({i \in DOMAIN track_f0 : ~IsNaN(track_f0[i])})

\* C15: after analyze_take, the boundaries of _segment_notes_by_voicing are
\* index ranges into the voiced frames that are non-empty, ascending and
\* contiguous, start at the first voiced frame and end at the last, so that
\* every voiced frame lies in exactly one range; there is no range when no
\* frame is voiced.  This holds for every max_gap_sec and max_jump_cents.
C15_BoundsPartitionVoiced ==
    Analyzed =>
        LET b == take_out.bounds
            n == VoicedCount
        IN  /\ (n = 0) <=> (b = <<>>)
            /\ n > 0 => /\ b[1][1] = 1
                        /\ b[Len(b)][2] = n
            /\ \A k \in DOMAIN b : b[k][1] <= b[k][2]
            /\ \A k \in 1..(Len(b) - 1) : b[k + 1][1] = b[k][2] + 1
            /\ \A i \in 1..n :
                  Cardinality({k \in DOMAIN b : b[k][1] <= i /\ i <= b[k][2]}) = 1

\* the scenario contour split once by a jump and once by a gap
C15_Witness ==
    /\ Analyzed
    /\ track_f0 = ScenarioTrack
    /\ take_args.max_gap_ms = 15
    /\ take_args.max_jump_cents = 80
    /\ take_out.bounds = <<<<1, 3>>, <<4, 6>>, <<7, 8>>>>

VoicedAt(i) == ~IsNaN(track_f0[i]) /\ track_f0[i] > 0
SemitoneAt(i) == RoundMidiOfHz(<<track_f0[i], 1>>)
\* frames i .. j are voiced and share one rounded semitone
SameRun(i, j) ==
    /\ i >= 1
    /\ j <= Len(track_f0)
    /\ \A k \in i..j : VoicedAt(k) /\ SemitoneAt(k) = SemitoneAt(i)
MaximalRuns ==
    {r \in (DOMAIN track_f0) \X (DOMAIN track_f0) :
        /\ r[1] <= r[2]
        /\ SameRun(r[1], r[2])
        /\ ~SameRun(r[1] - 1, r[2])
        /\ ~SameRun(r[1], r[2] + 1)}
LongRuns == {r \in MaximalRuns : r[2] - r[1] + 1 >= seg_args.min_note_len_frames}

\* C16: the notes of segment_notes are, in order, exactly the maximal runs of
\* consecutive voiced frames sharing one rounded semitone that have at least
\* min_note_len_frames frames: each note spans one such run, no such run is
\* missing, and a shorter run belongs to no note.  On the scenario contour
\* with min_note_len_frames = 2 the notes span frames 0-2, 3-5 and 7-8.
C16_NotesAreLongRuns ==
    Segmented =>
        /\ Len(seg_notes) = Cardinality(LongRuns)
        /\ \A k \in DOMAIN seg_notes :
              <<seg_notes[k].start_idx, seg_notes[k].end_idx>> \in LongRuns
        /\ \A k \in 1..(Len(seg_notes) - 1) :
              seg_notes[k].end_idx < seg_notes[k + 1].start_idx
        /\ (track_f0 = ScenarioTrack /\ seg_args.min_note_len_frames = 2) =>
              [k \in DOMAIN seg_notes |->
                  <<seg_notes[k].start_idx - 1, seg_notes[k].end_idx - 1>>]
                  = <<<<0, 2>>, <<3, 5>>, <<7, 8>>>>

\* the scenario: three notes, the last one after the unvoiced frame
C16_Witness ==
    /\ Segmented
    /\ track_f0 = ScenarioTrack
    /\ seg_args.min_note_len_frames = 2
    /\ Len(seg_notes) = 3
    /\ seg_notes[3].start_idx = 8

FracEq(a, b) == a[1] * b[2] = b[1] * a[2]

\* measured_hz is the median of the member frequencies, and target_hz and
\* cents_error are those of the semitone nearest to that median
MedianNote(note, member_hz) ==
    /\ FracEq(note.measured_hz, MedianHz(member_hz))
    /\ note.target_hz = MidiToHz(RoundMidiOfHz(MedianHz(member_hz)))
    /\ note.cents_error = HzRatio(MedianHz(member_hz), note.target_hz)

\* the quantized-run half of C17: every note of segment_notes is a MedianNote
SegNotesMedian ==
    \A k \in DOMAIN seg_notes :
        MedianNote(seg_notes[k],
                   Slice(track_f0, seg_notes[k].start_idx, seg_notes[k].end_idx))

\* C17: every note of analyze_take (voicing, gap and jump strategy) and every
\* note of segment_notes (quantized-run strategy) has the median of its member
\* frame frequencies as measured_hz, and target_hz and cents_error derived
\* from that median.
C17_MeasuredIsMedian ==
    /\ Segmented => SegNotesMedian
    /\ Analyzed =>
          \A k \in DOMAIN take_out.notes :
              MedianNote(take_out.notes[k], take_out.notes[k].frame_hz)

----------------------------------------------------------------------------
(* Tone analyzers: analyze_pitch_smoothness, analyze_spectral_tone and     *)
(* analyze_jitter_shimmer (vocal_analyzer/tone_analysis_utils.py).  Here a *)
(* frame of the take is a record [f0, rms, tilt, hnr, h12]: its frequency  *)
(* in Hz (220 and 440, whose MIDI numbers 57 and 69 are exact; 0 or NaN:   *)
(* unvoiced), its RMS energy, and the spectral tilt, the harmonic-to-noise *)
(* ratio and the first-to-second harmonic ratio that the STFT gives for    *)
(* it, in dB.  An aggregate is None (<<>>), NaN (<<NaN>>) or the exact     *)
(* fraction <<num, den>>; a standard deviation is held as its square, the  *)
(* variance.                                                               *)

\* hz_to_midi_safe of one frame: 69 + 12 * log2(f / 440) where f > 0, else NaN
HzToMidiSafe(f) ==
    IF IsNaN(f) \/ f <= 0 THEN NaN
    ELSE CASE f = 220 -> 57
           [] f = 440 -> 69

\* the elements of a sequence that are not NaN, in order
NotNaN(x) == Select(x, [i \in DOMAIN x |-> ~IsNaN(x[i])])

\* smoothed MIDI numbers are held in sixtieths, so that the mean of up to five
\* MIDI numbers is an integer
MidiScale == 60

\* _nan_mean_window(x, center, half_win), in sixtieths
NanMeanWindow(x, center, half_win) ==
    LET lo     == Max2(1, center - half_win)
        hi     == Min2(Len(x), center + half_win)
        window == Slice(x, lo, hi)
        w      == NotNaN(window)
    IN  IF Len(window) = 0 THEN NaN
        ELSE IF Len(w) = 0 THEN NaN
        ELSE (SumSeq(w) * MidiScale) \div Len(w)

\* lines 164-168: the frame-to-frame deltas in cents, in sixtieths
Deltas(smoothed) ==
    [i \in DOMAIN smoothed |->
        IF i = 1 THEN NaN
        ELSE IF IsNaN(smoothed[i]) \/ IsNaN(smoothed[i - 1]) THEN NaN
        ELSE (smoothed[i] - smoothed[i - 1]) * 100]

\* np.median of a non-empty sequence of integers, over the denominator den
MedianOver(s, den) == <<MedianHz(s)[1], MedianHz(s)[2] * den>>

\* analyze_pitch_smoothness(f0_hz, times, smoothing_win, tolerance_cents_per_step):
\* the summary
analyze_pitch_smoothness(f0_hz, smoothing_win, tolerance) ==
    LET midi     == [i \in DOMAIN f0_hz |-> HzToMidiSafe(f0_hz[i])]
        half_win == Max2(0, smoothing_win \div 2)
        smoothed == [i \in DOMAIN midi |-> NanMeanWindow(midi, i, half_win)]
        deltas   == Deltas(smoothed)
        abs_d    == [i \in DOMAIN NotNaN(deltas) |-> Abs(NotNaN(deltas)[i])]
    IN  IF Len(abs_d) = 0
        THEN [mean_abs_delta_cents     |-> <<>>,
              median_abs_delta_cents   |-> <<>>,
              pct_within_tolerance     |-> <<>>,
              tolerance_cents_per_step |-> tolerance,
              valid_steps              |-> 0]
        ELSE [mean_abs_delta_cents     |-> <<SumSeq(abs_d), Len(abs_d) * MidiScale>>,
              median_abs_delta_cents   |-> MedianOver(abs_d, MidiScale),
              pct_within_tolerance     |->
                  <<100 * Cardinality({i \in DOMAIN abs_d :
                                          abs_d[i] <= tolerance * MidiScale}),
                    Len(abs_d)>>,
              tolerance_cents_per_step |-> tolerance,
              valid_steps              |-> Len(abs_d)]

\* _compute_h1h2: NaN where the frame has no positive finite f0
ComputeH1H2(frames, f0_arr) ==
    [i \in DOMAIN frames |->
        IF IsNaN(f0_arr[i]) \/ f0_arr[i] <= 0 THEN NaN ELSE frames[i].h12]

\* float("nan") as an aggregate, next to None (<<>>) and <<num, den>>
NaNFloat == <<NaN>>

\* _nanmean_safe: NaN when the array is empty or has no finite element
NanMeanSafe(arr) ==
    IF Len(arr) = 0 THEN NaNFloat
    ELSE IF Len(NotNaN(arr)) = 0 THEN NaNFloat
    ELSE <<SumSeq(NotNaN(arr)), Len(NotNaN(arr))>>

\* _nanmedian_safe
NanMedianSafe(arr) ==
    IF Len(arr) = 0 THEN NaNFloat
    ELSE IF Len(NotNaN(arr)) = 0 THEN NaNFloat
    ELSE MedianHz(NotNaN(arr))

\* _nanstd_safe, as the variance (n * sum(x^2) - sum(x)^2) / n^2
NanStdSafe(arr) ==
    IF Len(arr) = 0 THEN NaNFloat
    ELSE IF Len(NotNaN(arr)) = 0 THEN NaNFloat
    ELSE LET v == NotNaN(arr)
             n == Len(v)
         IN  <<n * SumSeq([i \in DOMAIN v |-> v[i] * v[i]]) - SumSeq(v) * SumSeq(v),
               n * n>>

\* _safe_float then _scale_to_1_10(value, vmin, vmax, invert): None for None
\* and NaN, else 1 + 9 * frac of the clamped value
ScaleTo1_10(value, vmin, vmax, invert) ==
    IF value = <<>> \/ value = NaNFloat THEN <<>>
    ELSE IF vmin = vmax THEN <<>>
    ELSE LET d    == value[2]
             v    == IF value[1] < vmin * d THEN vmin * d
                     ELSE IF value[1] > vmax * d THEN vmax * d
                     ELSE value[1]
             num  == IF invert THEN vmax * d - v ELSE v - vmin * d
         IN  <<d * (vmax - vmin) + 9 * num, d * (vmax - vmin)>>

\* analyze_spectral_tone(y, sr, frame_length, hop_length, f0_hz): the tilt,
\* HNR and H1-H2 part of the summary; f0_given: f0_hz is not None
analyze_spectral_tone(frames, f0_given, f0_hz) ==
    LET spectral_tilt == [i \in DOMAIN frames |-> frames[i].tilt]
        hnr           == [i \in DOMAIN frames |-> frames[i].hnr]
        h1h2          == IF f0_given
                         THEN ComputeH1H2(frames, f0_hz)
                         ELSE [i \in DOMAIN frames |-> NaN]
    IN  [spectral_tilt_mean   |-> NanMeanSafe(spectral_tilt),
         spectral_tilt_median |-> NanMedianSafe(spectral_tilt),
         spectral_tilt_std    |-> NanStdSafe(spectral_tilt),
         hnr_mean             |-> NanMeanSafe(hnr),
         hnr_median           |-> NanMedianSafe(hnr),
         hnr_std              |-> NanStdSafe(hnr),
         h1h2_mean            |-> NanMeanSafe(h1h2),
         h1h2_median          |-> NanMedianSafe(h1h2),
         h1h2_std             |-> NanStdSafe(h1h2),
         tilt_score           |-> ScaleTo1_10(NanMeanSafe(spectral_tilt), -15, 15, TRUE),
         clarity_score        |-> ScaleTo1_10(NanMeanSafe(hnr), 0, 30, FALSE),
         breathiness_score    |-> ScaleTo1_10(NanMeanSafe(h1h2), -5, 15, FALSE)]

\* a relative change abs(a - b) / b is held over the denominator RelScale, a
\* common multiple of the values b of the model
RelScale == 440

\* lines 366-372: jitter (or shimmer) per frame, NaN where a frame of the pair
\* is not positive
RelChanges(x) ==
    [i \in DOMAIN x |->
        IF i = 1 THEN NaN
        ELSE IF ~IsNaN(x[i]) /\ x[i] > 0 /\ ~IsNaN(x[i - 1]) /\ x[i - 1] > 0
        THEN (Abs(x[i] - x[i - 1]) * RelScale) \div x[i - 1]
        ELSE NaN]

\* analyze_jitter_shimmer._summ
Summ(x) ==
    LET v == NotNaN(x)
    IN  IF Len(v) = 0
        THEN [mean |-> <<>>, median |-> <<>>]
        ELSE [mean |-> <<SumSeq(v), Len(v) * RelScale>>,
              median |-> MedianOver(v, RelScale)]

\* analyze_jitter_shimmer(f0_hz, rms): the summary
analyze_jitter_shimmer(f0_hz, rms_arr) ==
    [jitter  |-> Summ(RelChanges(f0_hz)),
     shimmer |-> Summ(RelChanges(rms_arr))]

----------------------------------------------------------------------------
(* Specification of the tone analyzers: the take is built frame by frame,  *)
(* then each analyzer summarizes it once.                                  *)

MaxTone == 3
\* a silent frame (tilt and HNR are 10 * log10(EPS / EPS) = 0), a noisy
\* unvoiced frame that the tracker reports as 0 Hz, and voiced frames on A3
\* and A4
ToneFrames ==
    {[f0 |-> NaN, rms |-> 0, tilt |-> 0,  hnr |-> 0,  h12 |-> 0],
     [f0 |-> 0,   rms |-> 1, tilt |-> -3, hnr |-> 2,  h12 |-> 0],
     [f0 |-> 220, rms |-> 2, tilt |-> 6,  hnr |-> 20, h12 |-> 4],
     [f0 |-> 440, rms |-> 2, tilt |-> 9,  hnr |-> 20, h12 |-> -2],
     [f0 |-> 440, rms |-> 1, tilt |-> 9,  hnr |-> 12, h12 |-> 4]}
SmoothingWinVals == {1, 5}
ToleranceVals == {20}

ToneF0 == [i \in DOMAIN tone_frames |-> tone_frames[i].f0]
ToneRms == [i \in DOMAIN tone_frames |-> tone_frames[i].rms]

ToneInit ==
    /\ ToneIdle
    /\ NotToneIdle

\* the take yields one more frame
AppendToneFrame ==
    /\ smooth_out = <<>>
    /\ spectral_out = <<>>
    /\ jitter_out = <<>>
    /\ Len(tone_frames) < MaxTone
    /\ \E fr \in ToneFrames : tone_frames' = Append(tone_frames, fr)
    /\ UNCHANGED <<smooth_out, spectral_out, jitter_out, not_tone_vars>>

\* analyze_pitch_smoothness(f0_hz, times, smoothing_win, tolerance_cents_per_step)
AnalyzePitchSmoothness ==
    /\ smooth_out = <<>>
    /\ \E smoothing_win \in SmoothingWinVals, tolerance \in ToleranceVals :
          smooth_out' = [smoothing_win |-> smoothing_win,
                         summary |-> analyze_pitch_smoothness(ToneF0, smoothing_win,
                                                              tolerance)]
    /\ UNCHANGED <<tone_frames, spectral_out, jitter_out, not_tone_vars>>

\* analyze_spectral_tone(y, sr, frame_length, hop_length, f0_hz), with or
\* without an f0 track; a waveform has at least one STFT frame
AnalyzeSpectralTone ==
    /\ spectral_out = <<>>
    /\ Len(tone_frames) > 0
    /\ \E f0_given \in BOOLEAN :
          spectral_out' = [f0_given |-> f0_given,
                           summary |-> analyze_spectral_tone(tone_frames, f0_given,
                                                             ToneF0)]
    /\ UNCHANGED <<tone_frames, smooth_out, jitter_out, not_tone_vars>>

\* analyze_jitter_shimmer(f0_hz, rms)
AnalyzeJitterShimmer ==
    /\ jitter_out = <<>>
    /\ jitter_out' = [summary |-> analyze_jitter_shimmer(ToneF0, ToneRms)]
    /\ UNCHANGED <<tone_frames, smooth_out, spectral_out, not_tone_vars>>

ToneNext ==
    \/ AppendToneFrame
    \/ AnalyzePitchSmoothness
    \/ AnalyzeSpectralTone
    \/ AnalyzeJitterShimmer

SpecTone == ToneInit /\ [][ToneNext]_vars

----------------------------------------------------------------------------
(* Claims about the tone analyzers *)

\* no frame has a positive f0 for H1-H2 to be measured at, or no track is given
NoH1H2Samples ==
    \/ ~spectral_out.f0_given
    \/ \A i \in DOMAIN tone_frames : ~(tone_frames[i].f0 > 0)
\* no two consecutive frames are both voiced (both sounding)
NoJitterSamples ==
    \A i \in 2..Len(tone_frames) :
        ~(tone_frames[i].f0 > 0 /\ tone_frames[i - 1].f0 > 0)
NoShimmerSamples ==
    \A i \in 2..Len(tone_frames) :
        ~(tone_frames[i].rms > 0 /\ tone_frames[i - 1].rms > 0)

\* the smoothness part of C18: with no valid step every aggregate is None
SmoothnessNull ==
    (smooth_out /= <<>> /\ smooth_out.summary.valid_steps = 0) =>
        /\ smooth_out.summary.mean_abs_delta_cents = <<>>
        /\ smooth_out.summary.median_abs_delta_cents = <<>>
        /\ smooth_out.summary.pct_within_tolerance = <<>>

\* the jitter and shimmer part of C18
JitterShimmerNull ==
    jitter_out /= <<>> =>
        /\ NoJitterSamples => jitter_out.summary.jitter = [mean |-> <<>>, median |-> <<>>]
        /\ NoShimmerSamples => jitter_out.summary.shimmer = [mean |-> <<>>, median |-> <<>>]

\* the H1-H2 part of C18
H1H2Null ==
    (spectral_out /= <<>> /\ NoH1H2Samples) =>
        /\ spectral_out.summary.h1h2_mean = <<>>
        /\ spectral_out.summary.h1h2_median = <<>>
        /\ spectral_out.summary.h1h2_std = <<>>

\* C18: in the summary of every tone analyzer, a metric that has no valid
\* sample (no valid smoothness step, no frame with H1-H2, no jitter or shimmer
\* pair) has None for each of its aggregates: not NaN and not a number.
C18_NoSamplesNull == SmoothnessNull /\ JitterShimmerNull /\ H1H2Null

----------------------------------------------------------------------------
(* The takes index: compute_take_accuracy and build_index                  *)
(* (inter_take_analysis/build_takes_index.py) over the take CSVs that      *)
(* write_take_csv writes.  A CSV is the sequence of its note rows, a row   *)
(* is its cents_error cell: an integer number of cents, BadCell for text   *)
(* that float() rejects, NoCell when the row has no such column.  A score  *)
(* is a percentage in hundredths, as round(accuracy, 2) leaves it.         *)

BadCell == -4000000
NoCell == -5000000

\* lines 13-28: <<total_notes, within_threshold>> after the rows
RECURSIVE CountRows(_, _, _, _, _)
CountRows(rows, i, threshold_cents, total_notes, within_threshold) ==
    IF i > Len(rows)
    THEN <<total_notes, within_threshold>>
    ELSE IF rows[i] = NoCell \/ rows[i] = BadCell
    THEN CountRows(rows, i + 1, threshold_cents, total_notes, within_threshold)
    ELSE CountRows(rows, i + 1, threshold_cents, total_notes + 1,
                   IF Abs(rows[i]) <= threshold_cents
                   THEN within_threshold + 1
                   ELSE within_threshold)

\* compute_take_accuracy(csv_path, threshold_cents), as <<num, den>> percent
compute_take_accuracy(rows, threshold_cents) ==
    LET c == CountRows(rows, 1, threshold_cents, 0, 0)
    IN  IF c[1] = 0 THEN <<0, 1>> ELSE <<c[2] * 100, c[1]>>

\* round(accuracy, 2), in hundredths
Round2(accuracy) == RoundHalfEven(accuracy[1] * 100, accuracy[2])

\* find_csv_files: the CSVs of takes/, sorted
find_csv_files(dir) ==
    Select([i \in DOMAIN IndexLabels |-> i], [i \in DOMAIN IndexLabels |-> dir[i] /= NoCsv])

\* build_index(takes_dir, threshold_cents)
build_index(dir, threshold_cents) ==
    LET csv_files == find_csv_files(dir)
    IN  [labels |-> [k \in DOMAIN csv_files |-> IndexLabels[csv_files[k]]],
         scores |-> [k \in DOMAIN csv_files |->
                        Round2(compute_take_accuracy(dir[csv_files[k]],
                                                     threshold_cents))]]

----------------------------------------------------------------------------
(* Specification of the takes index: take CSVs are written header first    *)
(* and row by row, then the index is built once.                           *)

MaxNotes == 2
\* cents_error cells: within 25 cents, within 50, beyond both, and not a number
CellVals == {10, -30, 60, BadCell, NoCell}
ThresholdVals == {25, 50}

IndexInit ==
    /\ IndexIdle
    /\ NotIndexIdle

\* write_take_csv: the file is created with its header
WriteTakeHeader ==
    /\ index_out = <<>>
    /\ \E i \in DOMAIN IndexLabels :
          /\ takes_dir[i] = NoCsv
          /\ takes_dir' = [takes_dir EXCEPT ![i] = <<>>]
    /\ UNCHANGED <<index_out, not_index_vars>>

\* write_take_csv: one note row is written
WriteNoteRow ==
    /\ index_out = <<>>
    /\ \E i \in DOMAIN IndexLabels, cell \in CellVals :
          /\ takes_dir[i] /= NoCsv
          /\ Len(takes_dir[i]) < MaxNotes
          /\ takes_dir' = [takes_dir EXCEPT ![i] = Append(@, cell)]
    /\ UNCHANGED <<index_out, not_index_vars>>

\* build_index(takes_dir, threshold_cents)
BuildIndex ==
    /\ index_out = <<>>
    /\ \E threshold_cents \in ThresholdVals :
          index_out' = [threshold_cents |-> threshold_cents,
                        labels |-> build_index(takes_dir, threshold_cents).labels,
                        scores |-> build_index(takes_dir, threshold_cents).scores]
    /\ UNCHANGED <<takes_dir, not_index_vars>>

IndexNext == WriteTakeHeader \/ WriteNoteRow \/ BuildIndex

SpecIndex == IndexInit /\ [][IndexNext]_vars

----------------------------------------------------------------------------
(* Claims about the takes index *)

\* the rows of the k-th indexed take
IndexedRows(k) ==
    takes_dir[CHOOSE i \in DOMAIN IndexLabels : IndexLabels[i] = index_out.labels[k]]
\* the rows that count as notes: those with a numeric cents_error
NoteRows(rows) == Select(rows, [i \in DOMAIN rows |-> rows[i] /= BadCell /\ rows[i] /= NoCell])
\* the take has notes, none of them within the threshold
ScoresZero(rows) ==
    /\ Len(NoteRows(rows)) > 0
    /\ \A i \in DOMAIN NoteRows(rows) : Abs(NoteRows(rows)[i]) > index_out.threshold_cents

\* C19: in the index, the score reported for a take whose CSV has no note
\* rows differs from the score reported for a take that has notes none of
\* which is within the threshold.
C19_EmptyTakeDistinct ==
    index_out /= <<>> =>
        \A k, l \in DOMAIN index_out.labels :
            (Len(NoteRows(IndexedRows(k))) = 0 /\ ScoresZero(IndexedRows(l)))
                => index_out.scores[k] /= index_out.scores[l]

----------------------------------------------------------------------------
(* load_audio_pair (dutils/analysis_utils.py).  A file is a record         *)
(* [exists, sr, audio]: its sample rate in kHz and the waveform it holds.  *)

\* what the call yields when it raises: nothing is returned
Raised(exception) ==
    [raised |-> exception, vocal_y |-> "none", vocal_sr |-> 0, ref_y |-> "none",
     ref_sr |-> 0, ref_resolved |-> "none"]

\* the returned tuple (vocal_y, vocal_sr, ref_y, ref_sr, ref_resolved)
Returned(vocal, ref_y, ref_sr, ref_resolved) ==
    [raised |-> "none", vocal_y |-> vocal.audio, vocal_sr |-> vocal.sr,
     ref_y |-> ref_y, ref_sr |-> ref_sr, ref_resolved |-> ref_resolved]

\* mutant: a reference of another sample rate is returned as if resampled
LoadReference_resample(files, ref_resolved) ==
    Returned(files.vocal, files[ref_resolved].audio, files.vocal.sr, ref_resolved)

\* lines 132-136: the reference at ref_path is loaded and its rate compared
LoadReference(files, ref_resolved) ==
    IF files[ref_resolved].sr /= files.vocal.sr
    THEN Raised("ValueError")
    ELSE Returned(files.vocal, files[ref_resolved].audio, files[ref_resolved].sr,
                  ref_resolved)

\* load_audio_pair(vocal_path, reference_path, alt_ref_dir); the two optional
\* arguments are given (TRUE) or None
load_audio_pair(files, reference_path, alt_ref_dir) ==
    IF reference_path
    THEN IF ~files.ref.exists
         THEN IF ~alt_ref_dir \/ ~files.alt.exists
              THEN Raised("FileNotFoundError")
              ELSE LoadReference(files, "alt")
         ELSE LoadReference(files, "ref")
    ELSE Returned(files.vocal, "none", files.vocal.sr, "none")

----------------------------------------------------------------------------
(* Specification of load_audio_pair: the vocal exists, a reference and a   *)
(* fallback copy may be put in place, then the pair is loaded once.        *)

\* sample rates in kHz
SampleRates == {22, 44, 48}

LoadInit ==
    /\ \E sr \in SampleRates :
          audio_files = [vocal |-> [exists |-> TRUE, sr |-> sr, audio |-> "vocal"],
                         ref |-> NoFile, alt |-> NoFile]
    /\ load_args = <<>>
    /\ load_out = <<>>
    /\ NotLoadIdle

\* a reference recording is stored at reference_path
PutReference ==
    /\ load_args = <<>>
    /\ ~audio_files.ref.exists
    /\ \E sr \in SampleRates :
          audio_files' = [audio_files EXCEPT
                             !.ref = [exists |-> TRUE, sr |-> sr, audio |-> "ref"]]
    /\ UNCHANGED <<load_args, load_out, not_load_vars>>

\* a recording of the reference's file name is stored in the fallback directory
PutFallback ==
    /\ load_args = <<>>
    /\ ~audio_files.alt.exists
    /\ \E sr \in SampleRates :
          audio_files' = [audio_files EXCEPT
                             !.alt = [exists |-> TRUE, sr |-> sr, audio |-> "alt"]]
    /\ UNCHANGED <<load_args, load_out, not_load_vars>>

\* load_audio_pair(vocal_path, reference_path, alt_ref_dir)
LoadAudioPair ==
    /\ load_args = <<>>
    /\ \E reference_path \in BOOLEAN, alt_ref_dir \in BOOLEAN :
          /\ load_args' = [reference_path |-> reference_path,
                           alt_ref_dir |-> alt_ref_dir]
          /\ load_out' = load_audio_pair(audio_files, reference_path, alt_ref_dir)
    /\ UNCHANGED <<audio_files, not_load_vars>>

LoadNext == PutReference \/ PutFallback \/ LoadAudioPair

SpecLoad == LoadInit /\ [][LoadNext]_vars

----------------------------------------------------------------------------
(* Claims about load_audio_pair *)

\* the call was made with a reference_path
LoadedWithRef == load_args /= <<>> /\ load_args.reference_path
\* the reference is neither at its path nor, by name, in the fallback directory
RefMissing ==
    /\ ~audio_files.ref.exists
    /\ ~(load_args.alt_ref_dir /\ audio_files.alt.exists)
\* the file the lookup finds: the given path first, else the fallback copy
RefFound == IF audio_files.ref.exists THEN "ref" ELSE "alt"

\* C20: when load_audio_pair is called with a reference, it raises
\* FileNotFoundError iff the reference is missing at its path and in the
\* fallback directory, raises ValueError iff the file found has another
\* sample rate than the vocal, and otherwise returns that very file: found at
\* the given path or else in the fallback directory, with its own waveform
\* and a sample rate equal to the vocal's.  When it raises, no reference is
\* returned.
C20_ReferenceFoundOrFatal ==
    LoadedWithRef =>
        /\ (load_out.raised = "FileNotFoundError") <=> RefMissing
        /\ (load_out.raised = "ValueError") <=>
              (~RefMissing /\ audio_files[RefFound].sr /= audio_files.vocal.sr)
        /\ load_out.raised = "none" =>
              /\ ~RefMissing
              /\ load_out.ref_resolved = RefFound
              /\ load_out.ref_y = audio_files[RefFound].audio
              /\ load_out.ref_sr = audio_files[RefFound].sr
              /\ load_out.ref_sr = load_out.vocal_sr
              /\ load_out.vocal_sr = audio_files.vocal.sr
        /\ load_out.raised /= "none" =>
              load_out.ref_y = "none" /\ load_out.ref_resolved = "none"

\* the reference is absent at its path and returned from the fallback directory
C20_Witness ==
    /\ LoadedWithRef
    /\ ~audio_files.ref.exists
    /\ load_out.raised = "none"
    /\ load_out.ref_resolved = "alt"
    /\ load_out.ref_y = "alt"

----------------------------------------------------------------------------
(* Contour cleaning in the MIDI domain: remove_outlier_frames and          *)
(* smooth_nearest_notes (v13.py; experimental/v5.py has the same loops),   *)
(* called in this order by hz_to_note_and_cents.  A MIDI value is an       *)
(* integer number of hundredths of a semitone, or NaN; a nearest note is   *)
(* an integer MIDI number, or NaN.                                         *)

\* abs(midi[i] - np.median(neighbors)) > max_semitone_jump, the median being
\* <<num, den>> hundredths
FarFromMedian(v, median, max_semitone_jump) ==
    Abs(v * median[2] - median[1]) > max_semitone_jump * 100 * median[2]

\* lines 93-105: the body of the loop for frame i, over the copy `midi`
OutlierStep(midi, i, max_semitone_jump, window) ==
    IF IsNaN(midi[i]) THEN midi
    ELSE LET start     == Max2(1, i - window)
             end       == Min2(Len(midi), i + window)
             neighbors == NotNaN(Slice(midi, start, end))
         IN  IF Len(neighbors) < 3 THEN midi
             ELSE IF FarFromMedian(midi[i], MedianHz(neighbors), max_semitone_jump)
             THEN [midi EXCEPT ![i] = NaN]
             ELSE midi

\* lines 92-105: the loop, from frame i on
RECURSIVE OutlierLoop(_, _, _, _)
OutlierLoop(midi, i, max_semitone_jump, window) ==
    IF i > Len(midi) THEN midi
    ELSE OutlierLoop(OutlierStep(midi, i, max_semitone_jump, window), i + 1,
                     max_semitone_jump, window)

\* mutant: nulled frames are removed from the array
RemoveOutlierFrames_drop(midi_float, max_semitone_jump, window) ==
    NotNaN(OutlierLoop(midi_float, 1, max_semitone_jump, window))

\* remove_outlier_frames(midi_float, max_semitone_jump, window): the loop runs
\* over a copy of the argument
remove_outlier_frames(midi_float, max_semitone_jump, window) ==
    OutlierLoop(midi_float, 1, max_semitone_jump, window)

\* np.round(midi_clean): halves go to the even note
NearestNotes(midi_clean) ==
    [i \in DOMAIN midi_clean |->
        IF IsNaN(midi_clean[i]) THEN NaN ELSE RoundHalfEven(midi_clean[i], 100)]

\* midi[a:b] = v, for the positions a .. b - 1
Fill(midi, a, b, v) ==
    [k \in DOMAIN midi |-> IF a <= k /\ k < b THEN v ELSE midi[k]]

\* while j < n and np.isnan(midi[j]): j += 1
RECURSIVE NanEnd(_, _)
NanEnd(midi, j) ==
    IF j <= Len(midi) /\ IsNaN(midi[j]) THEN NanEnd(midi, j + 1) ELSE j

\* while j < n and not np.isnan(midi[j]) and midi[j] == base_note: j += 1
RECURSIVE SameEnd(_, _, _)
SameEnd(midi, j, base_note) ==
    IF j <= Len(midi) /\ ~IsNaN(midi[j]) /\ midi[j] = base_note
    THEN SameEnd(midi, j + 1, base_note) ELSE j

\* while mid_end < n and not np.isnan(midi[mid_end]) and
\* midi[mid_end] != base_note: mid_end += 1
RECURSIVE DiffEnd(_, _, _)
DiffEnd(midi, mid_end, base_note) ==
    IF mid_end <= Len(midi) /\ ~IsNaN(midi[mid_end]) /\ midi[mid_end] /= base_note
    THEN DiffEnd(midi, mid_end + 1, base_note) ELSE mid_end

\* pass 1 of smooth_nearest_notes from frame i on: a NaN gap of at most
\* max_nan_gap frames between two frames of one note is filled with the note
RECURSIVE GapPass(_, _, _)
GapPass(midi, i, max_nan_gap) ==
    IF i > Len(midi) THEN midi
    ELSE IF ~IsNaN(midi[i]) THEN GapPass(midi, i + 1, max_nan_gap)
    ELSE LET j         == NanEnd(midi, i + 1)
             gap_len   == j - i
             prev_some == i > 1 /\ ~IsNaN(midi[i - 1])
             next_some == j <= Len(midi) /\ ~IsNaN(midi[j])
         IN  GapPass(IF /\ gap_len <= max_nan_gap
                        /\ prev_some
                        /\ next_some
                        /\ midi[i - 1] = midi[j]
                     THEN Fill(midi, i, j, midi[i - 1])
                     ELSE midi,
                     j, max_nan_gap)

\* pass 2 of smooth_nearest_notes from frame i on: the frames after the run
\* of base_note that differ from base_note are set to base_note when there
\* are at most max_flip_len of them and base_note follows them
RECURSIVE FlipPass(_, _, _)
FlipPass(midi, i, max_flip_len) ==
    IF i > Len(midi) THEN midi
    ELSE IF IsNaN(midi[i]) THEN FlipPass(midi, i + 1, max_flip_len)
    ELSE LET base_note == midi[i]
             end1      == SameEnd(midi, i + 1, base_note)
             mid_start == end1
             mid_end   == DiffEnd(midi, mid_start, base_note)
             flip_len  == mid_end - mid_start
             next_start == mid_end
             next_end  == SameEnd(midi, next_start, base_note)
         IN  FlipPass(IF /\ flip_len > 0
                         /\ flip_len <= max_flip_len
                         /\ next_end > next_start
                      THEN Fill(midi, mid_start, mid_end, base_note)
                      ELSE midi,
                      IF next_end > end1 THEN next_end ELSE end1,
                      max_flip_len)

\* smooth_nearest_notes(midi_nearest, max_flip_len, max_nan_gap), over a copy
smooth_nearest_notes(midi_nearest, max_flip_len, max_nan_gap) ==
    FlipPass(GapPass(midi_nearest, 1, max_nan_gap), 1, max_flip_len)

----------------------------------------------------------------------------
(* Specification of the MIDI-domain cleaning: a contour is built frame by  *)
(* frame, hz_to_note_and_cents removes its outliers, rounds it to nearest  *)
(* notes and smooths them; the smoothing is then applied to its own output. *)

MaxMidi == 5

\* librosa.hz_to_midi of a detected frame: unvoiced, or on one of three
\* neighbouring semitones
MidiVals == {NaN, 6000, 6100, 6200}

\* <<max_semitone_jump, window>>: the defaults of v13.py, and a tight pair
OutlierArgs == {<<6, 5>>, <<1, 1>>, <<1, 2>>}

MaxFlipLenVals == {1, 3}

MaxNanGapVals == {0, 2}

CleanInit ==
    /\ CleanIdle
    /\ NotCleanIdle

\* the detector delivers one more frame
AppendMidi ==
    /\ outlier_out = <<>>
    /\ Len(midi_raw) < MaxMidi
    /\ \E v \in MidiVals : midi_raw' = Append(midi_raw, v)
    /\ UNCHANGED <<outlier_out, flip_out, flip_again, not_clean_vars>>

\* midi_clean = remove_outlier_frames(midi_raw, ...)
RemoveOutlierFrames ==
    /\ outlier_out = <<>>
    /\ \E a \in OutlierArgs :
          outlier_out' = [max_semitone_jump |-> a[1],
                          window |-> a[2],
                          midi_float |-> midi_raw,
                          midi_clean |-> remove_outlier_frames(midi_raw, a[1], a[2])]
    /\ UNCHANGED <<midi_raw, flip_out, flip_again, not_clean_vars>>

\* midi_nearest = smooth_nearest_notes(np.round(midi_clean), ...)
SmoothNearestNotes ==
    /\ outlier_out /= <<>>
    /\ flip_out = <<>>
    /\ \E max_flip_len \in MaxFlipLenVals, max_nan_gap \in MaxNanGapVals :
          LET midi_nearest_initial == NearestNotes(outlier_out.midi_clean)
          IN  flip_out' = [max_flip_len |-> max_flip_len,
                           max_nan_gap |-> max_nan_gap,
                           midi_nearest_initial |-> midi_nearest_initial,
                           gap_filled |-> GapPass(midi_nearest_initial, 1, max_nan_gap),
                           midi_nearest |-> smooth_nearest_notes(midi_nearest_initial,
                                                max_flip_len, max_nan_gap)]
    /\ UNCHANGED <<midi_raw, outlier_out, flip_again, not_clean_vars>>

\* the same smoothing, with the same parameters, over the smoothed notes
SmoothAgain ==
    /\ flip_out /= <<>>
    /\ flip_again = <<>>
    /\ flip_again' = [midi_nearest |->
                         smooth_nearest_notes(flip_out.midi_nearest,
                             flip_out.max_flip_len, flip_out.max_nan_gap)]
    /\ UNCHANGED <<midi_raw, outlier_out, flip_out, not_clean_vars>>

CleanNext == AppendMidi \/ RemoveOutlierFrames \/ SmoothNearestNotes \/ SmoothAgain

SpecClean == CleanInit /\ [][CleanNext]_vars

----------------------------------------------------------------------------
(* Specification of the two cleaning steps over one contour: each detected *)
(* frame is seen in Hz with its energy by gate_frames and in MIDI by       *)
(* remove_outlier_frames.                                                  *)

\* f0[f0 <= 0] = np.nan, then librosa.hz_to_midi
MidiOfF0(v) == IF IsNaN(v) \/ v = ZeroHz THEN NaN ELSE v

NonDestructiveInit ==
    /\ CoreIdle
    /\ RestIdle

\* the estimator delivers one more frame: its f0, its energy and its MIDI value
AppendContourFrame ==
    /\ gate_args = <<>>
    /\ outlier_out = <<>>
    /\ Len(f0) < MaxFrames
    /\ \E v \in F0Vals, e \in RmsVals :
          /\ f0' = Append(f0, v)
          /\ rms' = Append(rms, e)
          /\ midi_raw' = Append(midi_raw, MidiOfF0(v))
    /\ UNCHANGED <<gate_args, keep, refs, gated, keep2, sum_vars, store_vars, sim_vars>>
    /\ UNCHANGED <<seg_vars, tone_vars, index_vars, load_vars, pipe_vars, score_vars>>
    /\ UNCHANGED <<outlier_out, flip_out, flip_again>>

NonDestructiveNext == AppendContourFrame \/ Gate \/ RemoveOutlierFrames

SpecNonDestructive == NonDestructiveInit /\ [][NonDestructiveNext]_vars

Cleaned == outlier_out /= <<>>

\* every position of `out` holds the value of `inp` or null, and a null of
\* `inp` stays null
MaskedCopy(inp, out) ==
    /\ Len(out) = Len(inp)
    /\ \A i \in DOMAIN inp :
          /\ out[i] = inp[i] \/ IsNaN(out[i])
          /\ IsNaN(inp[i]) => IsNaN(out[i])

\* C21: cleaning is non-destructive: the mask of gate_frames has the length
\* of f0 (empty for an empty contour); the gated contour and the output of
\* remove_outlier_frames have the input's length and hold at every position
\* the unchanged input value or null, a null input staying null; and neither
\* call changes the array it was given.
C21_CleaningNonDestructive ==
    /\ [](Gated => Len(keep) = Len(f0) /\ MaskedCopy(f0, gated))
    /\ [](Cleaned => /\ MaskedCopy(outlier_out.midi_float, outlier_out.midi_clean)
                     /\ outlier_out.midi_float = midi_raw)
    /\ [][(~Gated /\ Gated') => (f0' = f0 /\ rms' = rms)]_vars

\* both steps have run on a contour of which the gate dropped a voiced frame
\* and the outlier filter nulled another
C21_Witness ==
    /\ Gated /\ Cleaned
    /\ \E i \in DOMAIN f0 : ~IsNaN(f0[i]) /\ f0[i] /= ZeroHz /\ ~keep[i]
    /\ \E i \in DOMAIN midi_raw :
          ~IsNaN(midi_raw[i]) /\ IsNaN(outlier_out.midi_clean[i])

----------------------------------------------------------------------------
(* Claims on SpecClean *)

Smoothed == flip_out /= <<>>

SmoothedAgain == flip_again /= <<>>

\* the array as cleaned when frame i is judged: the frames before i as
\* returned, the frames from i on as given
CleanedSoFar(i) ==
    [k \in DOMAIN outlier_out.midi_float |->
        IF k < i THEN outlier_out.midi_clean[k] ELSE outlier_out.midi_float[k]]

\* the voiced frames other than i within +/- window indices of i
OtherNeighbors(i) ==
    LET start == Max2(1, i - outlier_out.window)
        end   == Min2(Len(outlier_out.midi_float), i + outlier_out.window)
    IN  NotNaN(Slice([CleanedSoFar(i) EXCEPT ![i] = NaN], start, end))

\* C22: remove_outlier_frames nulls a voiced frame i exactly when at least 3
\* other voiced frames lie within +/- window indices of i in the array as
\* cleaned so far and the value of frame i differs from the median of those
\* other frames by more than max_semitone_jump.
C22_NulledIffFarFromOthers ==
    Cleaned =>
        \A i \in DOMAIN outlier_out.midi_float :
            ~IsNaN(outlier_out.midi_float[i]) =>
                (IsNaN(outlier_out.midi_clean[i]) <=>
                    /\ Len(OtherNeighbors(i)) >= 3
                    /\ FarFromMedian(outlier_out.midi_float[i],
                                     MedianHz(OtherNeighbors(i)),
                                     outlier_out.max_semitone_jump))

\* s[a .. b] is a maximal run of one repeated note
IsMaximalRun(s, a, b) ==
    /\ 1 <= a /\ a <= b /\ b <= Len(s)
    /\ ~IsNaN(s[a])
    /\ \A k \in a..b : s[k] = s[a]
    /\ a > 1 => s[a - 1] /= s[a]
    /\ b < Len(s) => s[b + 1] /= s[a]

\* the runs immediately before and after s[a .. b] carry one note
FlankedBySameNote(s, a, b) ==
    /\ a > 1 /\ b < Len(s)
    /\ ~IsNaN(s[a - 1]) /\ ~IsNaN(s[b + 1])
    /\ s[a - 1] = s[b + 1]

\* C23: the flip healing pass changes a frame only if the frame belongs to a
\* maximal run of one repeated note of at most max_flip_len frames whose two
\* adjacent runs carry the same note, and it sets the run to that note.
C23_HealsOnlyFlankedRuns ==
    Smoothed =>
        \A i \in DOMAIN flip_out.gap_filled :
            flip_out.midi_nearest[i] /= flip_out.gap_filled[i] =>
                \E a \in 1..i, b \in i..Len(flip_out.gap_filled) :
                    /\ IsMaximalRun(flip_out.gap_filled, a, b)
                    /\ b - a + 1 <= flip_out.max_flip_len
                    /\ FlankedBySameNote(flip_out.gap_filled, a, b)
                    /\ \A k \in a..b :
                          flip_out.midi_nearest[k] = flip_out.gap_filled[a - 1]

\* no run of at most max_flip_len frames is flanked on both sides by one note
NoShortFlankedRun(s, max_flip_len) ==
    \A a \in DOMAIN s, b \in DOMAIN s :
        (IsMaximalRun(s, a, b) /\ b - a + 1 <= max_flip_len)
            => ~FlankedBySameNote(s, a, b)

\* C28: the flip healing pass reaches a fixed point in one application: its
\* output has no run of at most max_flip_len frames flanked on both sides by
\* the same note, and a second application changes nothing.
C28_SmoothingFixedPoint ==
    /\ Smoothed => NoShortFlankedRun(flip_out.midi_nearest, flip_out.max_flip_len)
    /\ SmoothedAgain => flip_again.midi_nearest = flip_out.midi_nearest

----------------------------------------------------------------------------
(* Further claims about compute_similarity (SpecSim) *)

\* the vocal contour as gated by the call
GatedVocal ==
    WhereKept(gate_frames(vocal_f0_raw, vocal_rms, sim_args.rms_gate_ratio,
                          sim_args.jump_gate_cents),
              vocal_f0_raw)

\* the number of leading vocal / reference frames an offset k drops
VocalLead(k) == Max2(k, 0)

RefLead(k) == Max2(-k, 0)

\* C24: offsets trim rather than pad: the detail of the candidate of offset k
\* has min(len(vocal) - max(k, 0), len(ref) - max(-k, 0)) entries, and entry
\* i compares vocal frame i + max(k, 0) with reference frame i + max(-k, 0).
C24_OffsetsTrim ==
    Compared =>
        \A c \in DOMAIN sim_out.candidates :
            LET cand == sim_out.candidates[c]
                k    == cand.offset
            IN  /\ Len(cand.frames) = Min2(Len(vocal_f0_raw) - VocalLead(k),
                                           Len(ref_f0) - RefLead(k))
                /\ \A i \in DOMAIN cand.frames :
                      /\ i + VocalLead(k) \in DOMAIN vocal_f0_raw
                      /\ i + RefLead(k) \in DOMAIN ref_f0
                      /\ cand.frames[i].time = i + VocalLead(k) - 1
                      /\ cand.frames[i].vocal_hz = GatedVocal[i + VocalLead(k)]
                      /\ cand.frames[i].ref_hz = RefTarget(ref_f0[i + RefLead(k)])
                      /\ cand.frames[i].cents_error =
                            cents_error(GatedVocal[i + VocalLead(k)],
                                        RefTarget(ref_f0[i + RefLead(k)]))

\* contours of different lengths compared at a positive and at a negative
\* offset, each leaving frames with a cents error
C24_Witness ==
    /\ Compared
    /\ Len(vocal_f0_raw) /= Len(ref_f0)
    /\ \E c, d \in DOMAIN sim_out.candidates :
          /\ sim_out.candidates[c].offset > 0
          /\ sim_out.candidates[d].offset < 0
          /\ sim_out.candidates[c].summary.valid_frames > 0
          /\ sim_out.candidates[d].summary.valid_frames > 0
          /\ Len(sim_out.candidates[c].frames) /= Len(sim_out.candidates[d].frames)

\* the summary of offset k when the raw vocal contour and its energy are
\* shifted by k first and gate_frames, the target quantization and
\* summarize_errors are applied to the shifted series
ShiftThenGate(k) ==
    LET v == Drop(vocal_f0_raw, VocalLead(k))
        e == Drop(vocal_rms, VocalLead(k))
        r == Drop(ref_f0, RefLead(k))
        g == WhereKept(gate_frames(v, e, sim_args.rms_gate_ratio,
                                   sim_args.jump_gate_cents), v)
    IN  BuildForOffset(g, r, 0, sim_args).summary

\* C25: for each candidate offset the summary equals the one obtained by
\* shifting the raw vocal contour and its energy by the offset and then
\* gating, quantizing the target and summarizing.
C25_GatingRecomputedPerOffset ==
    Compared =>
        \A c \in DOMAIN sim_out.candidates :
            sim_out.candidates[c].summary =
                ShiftThenGate(sim_out.candidates[c].offset)

\* no candidate offset yields a valid frame
NoValidCandidate ==
    \A c \in DOMAIN sim_out.candidates :
        sim_out.candidates[c].summary.valid_frames = 0

\* the per-frame detail of the alignment at offset 0
DetailAtZero == BuildForOffset(GatedVocal, ref_f0, 0, sim_args).frames

\* C27 as stated: when no candidate offset yields a valid frame, offset 0, the
\* null summary with valid_frames = 0 and the per-frame detail of the
\* offset-0 alignment are returned.
C27_NoValidKeepsDetail ==
    (Compared /\ NoValidCandidate) =>
        /\ sim_out.offset_frames = 0
        /\ sim_out.summary = NullSummary
        /\ sim_out.frames = DetailAtZero

\* C27 amended: when no candidate offset yields a valid frame, offset 0 and
\* the null summary with valid_frames = 0 are returned, and the frames list
\* is empty whatever the length of the aligned contours.
C27_NoValidEmptyDetail ==
    (Compared /\ NoValidCandidate) =>
        /\ sim_out.offset_frames = 0
        /\ sim_out.offset_ms = 0
        /\ sim_out.summary = NullSummary
        /\ sim_out.summary.valid_frames = 0
        /\ sim_out.frames = <<>>

\* several offsets tried on contours that align on three frames at offset 0,
\* none with a valid frame
C27_Witness ==
    /\ Compared /\ NoValidCandidate
    /\ Len(sim_out.candidates) > 1
    /\ Len(DetailAtZero) = 3
    /\ sim_out.frames = <<>>

----------------------------------------------------------------------------
(* Further claims about gate_frames (SpecGate) *)

\* frame i was dropped by the jump gate: it is further than jump_gate_cents
\* from the frame its jump was measured against
JumpDropped(i) ==
    /\ gate_args.jump_gate_cents > 0
    /\ refs[i] /= 0
    /\ (f0[i] - f0[refs[i]] > gate_args.jump_gate_cents
        \/ f0[refs[i]] - f0[i] > gate_args.jump_gate_cents)

\* C26: every frame kept by gate_frames has a non-null, strictly positive f0
\* and, when rms_gate_ratio > 0 and the maximum energy is positive, an energy
\* of at least rms_gate_ratio times the maximum energy of the whole contour;
\* with rms_gate_ratio <= 0 every dropped frame is unvoiced or a pitch jump.
C26_KeptFramesVoicedAndLoud ==
    Gated =>
        /\ \A i \in DOMAIN f0 :
              keep[i] =>
                  /\ ~IsNaN(f0[i]) /\ f0[i] /= ZeroHz /\ f0[i] > 0
                  /\ (gate_args.rms_gate_ratio > 0 /\ SeqMax(rms) > 0) =>
                        rms[i] * 100 >= gate_args.rms_gate_ratio * SeqMax(rms)
        /\ gate_args.rms_gate_ratio <= 0 =>
              \A i \in DOMAIN f0 :
                  ~keep[i] => (IsNaN(f0[i]) \/ f0[i] = ZeroHz \/ JumpDropped(i))

\* the energy gate is on, the loudest frame is unvoiced, a voiced frame next
\* to quiet frames only is dropped for its energy and another one is kept
C26_Witness ==
    /\ Gated /\ gate_args.rms_gate_ratio > 0 /\ Len(f0) = 3
    /\ IsNaN(f0[3]) /\ rms[3] = SeqMax(rms) /\ rms[1] < rms[3] /\ rms[2] < rms[3]
    /\ f0[1] > 0 /\ ~keep[1]

----------------------------------------------------------------------------
(* pipeline.main: one run analyses a take and writes the similarity JSON   *)
(* (when a reference is given), the shared notes CSV, the take CSV and the *)
(* takes index.  The take is IndexLabels[take]; the analysis of the        *)
(* recording is taken as given: `payload` stands for the run record built  *)
(* from it and `notes` for the cents errors of the notes segment_notes     *)
(* finds.                                                                  *)

\* the rows write_notes_csv builds from the notes of a take
NoteRowsOf(take_name, notes) ==
    [idx \in DOMAIN notes |->
        [take |-> take_name, note_index |-> idx - 1, cents_error |-> notes[idx]]]

\* mutant: the notes CSV is opened with mode "w"
write_notes_csv_overwrite(csv, take_name, notes) ==
    [exists |-> TRUE, rows |-> NoteRowsOf(take_name, notes)]

\* write_notes_csv(take_name, times, f0, out_csv): the file after the call,
\* opened with mode "a"
write_notes_csv(csv, take_name, notes) ==
    [exists |-> TRUE, rows |-> csv.rows \o NoteRowsOf(take_name, notes)]

\* write_take_csv(take_name, times, f0, out_csv): the cents_error column of
\* the file after the call, opened with mode "w"
write_take_csv(take_name, notes) == notes

MaxRuns == 3

\* the notes of a recording: none, one in tune, or one in tune and one off
PipeNotes == {<<>>, <<10>>, <<10, 60>>}

\* --takes_threshold
PipeThresholdVals == {25}

PipelineInit ==
    /\ CoreIdle
    /\ RestIdle

\* main(): one complete run of the pipeline for take IndexLabels[take]
RunPipeline ==
    /\ Len(pipe_log) < MaxRuns
    /\ \E take \in DOMAIN IndexLabels, reference \in BOOLEAN,
          payload \in Payloads, notes \in PipeNotes,
          takes_threshold \in PipeThresholdVals :
          LET take_name == IndexLabels[take]
              run == [take |-> NoTake, payload |-> payload, has_nan |-> FALSE]
              dir == [takes_dir EXCEPT ![take] = write_take_csv(take_name, notes)]
          IN  /\ sim_json' = IF reference
                             THEN upsert_similarity(sim_json, run, take_name)
                             ELSE sim_json
              /\ notes_csv' = write_notes_csv(notes_csv, take_name, notes)
              /\ takes_dir' = dir
              /\ index_out' = [threshold_cents |-> takes_threshold,
                               labels |-> build_index(dir, takes_threshold).labels,
                               scores |-> build_index(dir, takes_threshold).scores]
              /\ pipe_log' = Append(pipe_log,
                                [take |-> take, reference |-> reference,
                                 payload |-> payload, notes |-> notes])
    /\ UNCHANGED <<sum_vars, gate_vars, sim_vars, legacy0, written, order, n_upserts>>
    /\ UNCHANGED <<seg_vars, tone_vars, load_vars, clean_vars, score_vars>>

PipelineNext == RunPipeline

SpecPipeline == PipelineInit /\ [][PipelineNext]_vars

\* the runs of the log for a take, and those of them with a reference
RunsOf(take) == Select(pipe_log, [k \in DOMAIN pipe_log |-> pipe_log[k].take = take])

RefRunsOf(take) ==
    Select(pipe_log, [k \in DOMAIN pipe_log |->
                         pipe_log[k].take = take /\ pipe_log[k].reference])

\* the last element of a non-empty sequence
Last(s) == s[Len(s)]

\* the rows of the notes CSV that carry a take's name
NotesCsvRowsOf(take) ==
    Select(notes_csv.rows,
           [k \in DOMAIN notes_csv.rows |-> notes_csv.rows[k].take = IndexLabels[take]])

\* the note rows of all the runs of a sequence, oldest first
RECURSIVE AllNoteRows(_)
AllNoteRows(runs) ==
    IF runs = <<>> THEN <<>>
    ELSE NoteRowsOf(IndexLabels[Head(runs).take], Head(runs).notes)
             \o AllNoteRows(Tail(runs))

\* the entries of the similarity runs list for a take
SimEntriesOf(take) ==
    Select(sim_json.runs,
           [k \in DOMAIN sim_json.runs |-> sim_json.runs[k].take = IndexLabels[take]])

\* the similarity JSON, the take CSV and the takes index hold exactly one
\* copy of the data of each take that was analysed, and nothing of a take
\* that was not
OneCopyOutsideNotesCsv ==
    \A take \in DOMAIN IndexLabels :
        /\ IF RefRunsOf(take) = <<>>
           THEN SimEntriesOf(take) = <<>>
           ELSE /\ Len(SimEntriesOf(take)) = 1
                /\ SimEntriesOf(take)[1].payload = Last(RefRunsOf(take)).payload
        /\ IF RunsOf(take) = <<>>
           THEN /\ takes_dir[take] = NoCsv
                /\ \A k \in DOMAIN index_out.labels :
                      index_out.labels[k] /= IndexLabels[take]
           ELSE /\ takes_dir[take] = Last(RunsOf(take)).notes
                /\ Cardinality({k \in DOMAIN index_out.labels :
                                   index_out.labels[k] = IndexLabels[take]}) = 1

\* C29 as stated: after any number of pipeline runs every persisted artifact
\* holds exactly one copy of each analysed take's data: one entry in the
\* similarity runs list, one take CSV, one set of note rows in the shared
\* notes CSV and one label in the takes index, other takes being unchanged.
C29_OneCopyEverywhere ==
    pipe_log /= <<>> =>
        /\ OneCopyOutsideNotesCsv
        /\ \A take \in DOMAIN IndexLabels :
              NotesCsvRowsOf(take) =
                  IF RunsOf(take) = <<>> THEN <<>>
                  ELSE NoteRowsOf(IndexLabels[take], Last(RunsOf(take)).notes)

\* C29 amended: after any number of pipeline runs the similarity runs list,
\* the take CSV and the takes index hold exactly one copy of each analysed
\* take's data, other takes being unchanged, while the shared notes CSV
\* holds the note rows of every run of the take, oldest first.
C29_OneCopyButNotesAccumulate ==
    pipe_log /= <<>> =>
        /\ OneCopyOutsideNotesCsv
        /\ \A take \in DOMAIN IndexLabels :
              NotesCsvRowsOf(take) = AllNoteRows(RunsOf(take))
        /\ notes_csv.rows = AllNoteRows(pipe_log)

\* a take analysed twice with a reference and with different results, another
\* take analysed in between
C29_Witness ==
    /\ Len(pipe_log) = 3
    /\ pipe_log[1].take = 1 /\ pipe_log[2].take = 2 /\ pipe_log[3].take = 1
    /\ pipe_log[1].reference /\ pipe_log[2].reference /\ pipe_log[3].reference
    /\ pipe_log[1].notes = <<10, 60>> /\ pipe_log[3].notes = <<10>>
    /\ pipe_log[1].payload /= pipe_log[3].payload
    /\ Len(NotesCsvRowsOf(1)) = 3
    /\ Len(sim_json.runs) = 2

----------------------------------------------------------------------------
(* compute_pitch_accuracy_score (python/dutils/pitch_utils.py).  A value   *)
(* of the summary is a fraction <<num, den>>, or <<>> when the key is      *)
(* absent or None; the score is in hundredths, or NoneVal.  The summaries  *)
(* hold floats or None, as summarize_errors writes them.                   *)

\* round(float(val) * (100.0 if float(val) <= 1 else 1.0), 2), in hundredths
ScaledScore(val) ==
    IF val[1] <= val[2]
    THEN RoundHalfEven(val[1] * 100 * 100, val[2])
    ELSE RoundHalfEven(val[1] * 100, val[2])

\* max(0.0, min(100.0, round(100.0 - mac, 2))), in hundredths
FallbackScore(mac) ==
    IF mac[1] >= 100 * mac[2] THEN 0
    ELSE Min2(100 * 100, RoundHalfEven((100 * mac[2] - mac[1]) * 100, mac[2]))

\* the for loop over the in-tune keys from the i-th on, then the fallback on
\* mean_abs_cents
RECURSIVE ScoreFrom(_, _)
ScoreFrom(sm, i) ==
    IF i > 5
    THEN IF sm["mean_abs_cents"] /= <<>>
         THEN FallbackScore(sm["mean_abs_cents"])
         ELSE NoneVal
    ELSE IF sm[ScoreKeys[i]] = <<>> THEN ScoreFrom(sm, i + 1)
    ELSE ScaledScore(sm[ScoreKeys[i]])

compute_pitch_accuracy_score(sm) == ScoreFrom(sm, 1)

\* proportions in [0, 1], as the p_within_* and percent_in_tune keys of other
\* producers hold them
ProportionVals == {<<>>, <<1, 2>>}

\* percentages as summarize_errors computes them, 100 * k / n for k of n
\* valid frames: 0, 1 of 200, 1 of 100, 1 of 50, 1 of 3, 1 of 2, all
PercentVals == {<<>>, <<0, 1>>, <<1, 2>>, <<1, 1>>, <<2, 1>>, <<100, 3>>, <<50, 1>>, <<100, 1>>}

\* mean absolute cents: None, small, a third of a cent, beyond 100
MeanAbsVals == {<<>>, <<30, 1>>, <<1, 3>>, <<250, 1>>}

\* the values a key may hold
ValuesOf(key) ==
    IF key \in {"p_within_50_cents", "p_within_25_cents", "percent_in_tune"}
    THEN ProportionVals
    ELSE IF key = "mean_abs_cents" THEN MeanAbsVals
    ELSE PercentVals

ScoreInit ==
    /\ ScoreIdle
    /\ NotScoreIdle

\* the producer of the summary sets one more key
SetScoreKey ==
    /\ score_out = <<>>
    /\ \E i \in DOMAIN ScoreKeys :
          /\ score_summary[ScoreKeys[i]] = <<>>
          /\ \E val \in ValuesOf(ScoreKeys[i]) \ {<<>>} :
                score_summary' = [score_summary EXCEPT ![ScoreKeys[i]] = val]
    /\ UNCHANGED <<score_out, not_score_vars>>

\* compute_pitch_accuracy_score(summary)
ComputePitchAccuracyScore ==
    /\ score_out = <<>>
    /\ score_out' = [score |-> compute_pitch_accuracy_score(score_summary)]
    /\ UNCHANGED <<score_summary, not_score_vars>>

ScoreNext == SetScoreKey \/ ComputePitchAccuracyScore

SpecScore == ScoreInit /\ [][ScoreNext]_vars

Scored == score_out /= <<>>

\* the summary has none of the three proportion keys, as the summaries of
\* summarize_errors
NoProportionKey ==
    /\ score_summary["p_within_50_cents"] = <<>>
    /\ score_summary["p_within_25_cents"] = <<>>
    /\ score_summary["percent_in_tune"] = <<>>

NoInTuneKey ==
    /\ NoProportionKey
    /\ score_summary["pct_within_50"] = <<>>
    /\ score_summary["pct_within_25"] = <<>>

====
